---- MODULE Spec2Model ----
(***************************************************************************)
(* md-to-pdf-mcp: the tool-call handler (index.ts), the render             *)
(* orchestrator convertMarkdownToPdf (converter.ts) and the normalizer     *)
(* preprocessMarkdown (preprocessor.ts).                                   *)
(*                                                                         *)
(* Node runs one synchronous segment at a time, so an action is the code   *)
(* between two awaits.  Every awaited collaborator call (marked, the       *)
(* browser engine, the file system) settles with one of its outcomes.      *)
(***************************************************************************)
EXTENDS Integers, Sequences, FiniteSets, TLC

VARIABLES
  pc,          \* request -> position of the handler / conversion
  md,          \* request -> the markdown argument of the request
  outputPath,  \* request -> outputPath handed to convertMarkdownToPdf
  options,     \* request -> the other options handed to convertMarkdownToPdf
  parsed,      \* request -> the markdown handed to marked.parse
  fullHtml,    \* request -> the HTML envelope, block by block
  timeout,     \* request -> the computed timeout in ms (0: not computed)
  browser,     \* request -> the local `browser` (NoBrowser = null)
  completion,  \* request -> value of the return statement that was executed
  promise,     \* request -> the promise returned by convertMarkdownToPdf
  response,    \* request -> what the tool-call handler gave its caller
  events,      \* request -> the steps this conversion went through
  fs,          \* path -> artifact stored at that path
  sessions,    \* the rendering sessions launched so far, in launch order
  lines,       \* heading scan: input lines
  idx,         \* heading scan: loop index i (0-based)
  fixedLines,  \* heading scan: output lines
  lastHeaderLevel, \* heading scan: running heading context
  fixes,       \* preprocessMarkdown: fix descriptions
  markdown,    \* preprocessMarkdown: its argument
  processed,   \* preprocessMarkdown: the text being rewritten
  warnings,    \* preprocessMarkdown: warnings
  step,        \* preprocessMarkdown: the pass that runs next
  protectedUrls, \* preprocessMarkdown: table of the URL placeholders
  codeBlocks   \* preprocessMarkdown: table of the code-block placeholders

prepVars == <<options, parsed, fullHtml, timeout>>
convVars == <<pc, md, outputPath, options, parsed, fullHtml, timeout, browser,
              completion, promise, response, events, fs, sessions>>
scanVars == <<lines, idx, fixedLines, lastHeaderLevel, fixes>>
normVars == <<markdown, processed, warnings, step, protectedUrls, codeBlocks>>
vars == <<pc, md, outputPath, options, parsed, fullHtml, timeout, browser,
          completion, promise, response, events, fs, sessions, lines, idx,
          fixedLines, lastHeaderLevel, fixes, markdown, processed, warnings,
          step, protectedUrls, codeBlocks>>

----------------------------------------------------------------------------
(* Bounds *)

\* Two tool calls in flight at once: enough for every interleaving of one
\* conversion with another.
Requests == {1, 2}

\* Heading scan: number of input lines.
MaxLines == 3

\* Artifacts present in the output directory before the first request:
\* output.pdf, output-1.pdf, ... up to this many.
MaxInitialFiles == 1

\* Normalizer: an input is up to this many fragments.
MaxFragments == 4

\* Timeout: line counts go up to MaxLineSteps * LineStep.
LineStep == 3000
MaxLineSteps == 10

\* Page count: an artifact is up to this many byte fragments.
MaxBytes == 4

----------------------------------------------------------------------------
(* Text.  A text is a sequence of characters, each a one-character string;  *)
(* an emoji of the alert patterns is one element named by its code point.   *)

\* The backquote character, which no string of this notation can hold, and
\* the backslash.
Backtick == "U+0060"
Backslash == "\\"

\* \s of a regular expression, and what trim() removes
WhiteSpace == {" ", "\t", "\n", "\r", "\f"}
IsSpace(c) == c \in WhiteSpace

RECURSIVE TrimLeft(_)
TrimLeft(s) ==
  IF Len(s) > 0 /\ IsSpace(Head(s)) THEN TrimLeft(Tail(s)) ELSE s

RECURSIVE TrimRight(_)
TrimRight(s) ==
  IF Len(s) > 0 /\ IsSpace(s[Len(s)])
    THEN TrimRight(SubSeq(s, 1, Len(s) - 1)) ELSE s

Trim(s) == TrimRight(TrimLeft(s))

LowerSeq == <<"a", "b", "c", "d", "e", "f", "g", "h", "i", "j", "k", "l", "m",
              "n", "o", "p", "q", "r", "s", "t", "u", "v", "w", "x", "y", "z">>
UpperSeq == <<"A", "B", "C", "D", "E", "F", "G", "H", "I", "J", "K", "L", "M",
              "N", "O", "P", "Q", "R", "S", "T", "U", "V", "W", "X", "Y", "Z">>
Lower == {LowerSeq[k] : k \in 1..Len(LowerSeq)}
Upper == {UpperSeq[k] : k \in 1..Len(UpperSeq)}
Digits == {"0", "1", "2", "3", "4", "5", "6", "7", "8", "9"}
\* \w of a regular expression
WordChars == Lower \cup Upper \cup Digits \cup {"_"}
\* ^ and $ of a multiline regular expression, and what `.` rejects
LineTerminators == {"\n", "\r"}

\* The other letter case of c (c itself when it is no letter): the i flag.
OtherCase(c) ==
  IF c \in Lower THEN UpperSeq[CHOOSE k \in 1..26 : LowerSeq[k] = c]
  ELSE IF c \in Upper THEN LowerSeq[CHOOSE k \in 1..26 : UpperSeq[k] = c]
  ELSE c

\* The text as one string, for the fix descriptions.
RECURSIVE Str(_)
Str(s) == IF s = <<>> THEN "" ELSE Head(s) \o Str(Tail(s))

\* The decimal digits of a natural number, and the number they denote
\* (parseInt).
RECURSIVE DigitsOf(_)
DigitsOf(n) ==
  LET d == <<"0", "1", "2", "3", "4", "5", "6", "7", "8", "9">>[(n % 10) + 1]
  IN IF n < 10 THEN <<d>> ELSE Append(DigitsOf(n \div 10), d)

RECURSIVE parseInt(_)
parseInt(ds) ==
  IF ds = <<>> THEN 0
  ELSE 10 * parseInt(SubSeq(ds, 1, Len(ds) - 1))
         + (CHOOSE v \in 0..9 : DigitsOf(v) = <<ds[Len(ds)]>>)

\* text.split(sep) for a one-character separator, and lines.join(sep)
RECURSIVE Split(_, _)
Split(s, sep) ==
  IF \A k \in 1..Len(s) : s[k] # sep THEN <<s>>
  ELSE LET k == CHOOSE j \in 1..Len(s) :
                  s[j] = sep /\ \A h \in 1..(j - 1) : s[h] # sep
       IN <<SubSeq(s, 1, k - 1)>> \o Split(SubSeq(s, k + 1, Len(s)), sep)

RECURSIVE Join(_, _)
Join(ls, sep) ==
  IF ls = <<>> THEN <<>>
  ELSE IF Len(ls) = 1 THEN ls[1]
  ELSE ls[1] \o <<sep>> \o Join(Tail(ls), sep)

\* haystack.includes(needle)
Includes(s, sub) ==
  \E k \in 1..(Len(s) - Len(sub) + 1) : SubSeq(s, k, k + Len(sub) - 1) = sub

----------------------------------------------------------------------------
(* Regular expressions.  A pattern is a sequence of items, matched in order *)
(* with backtracking as the regular-expression engine does: an item is a    *)
(* character class with a quantifier (greedy: longest first, lazy: shortest *)
(* first) or a zero-width assertion.  An alternation is a sequence of       *)
(* patterns tried in order at each position.                                *)

Cls(set) == [neg |-> FALSE, set |-> set]
Not(set) == [neg |-> TRUE, set |-> set]
InCls(c, cls) == (c \in cls.set) # cls.neg
AnyChar == Not({})
Dot == Not(LineTerminators)
Space == Cls(WhiteSpace)

\* max = -1: no upper limit
Rep(cls, min, max, lazy) ==
  [kind |-> "rep", cls |-> cls, min |-> min, max |-> max, lazy |-> lazy]
One(cls) == Rep(cls, 1, 1, FALSE)
Opt(cls) == Rep(cls, 0, 1, FALSE)
Star(cls) == Rep(cls, 0, -1, FALSE)
Plus(cls) == Rep(cls, 1, -1, FALSE)
StarLazy(cls) == Rep(cls, 0, -1, TRUE)
PlusLazy(cls) == Rep(cls, 1, -1, TRUE)
Lit(c) == One(Cls({c}))
Word(w) == [k \in 1..Len(w) |-> Lit(w[k])]
\* a word under the i flag
WordI(w) == [k \in 1..Len(w) |-> One(Cls({w[k], OtherCase(w[k])}))]

\* ^ and $ under the m flag, \b, (?<!c) and (?!word)
Bol == [kind |-> "bol"]
Eol == [kind |-> "eol"]
WordBoundary == [kind |-> "wordb"]
NotBehind(c) == [kind |-> "notBehind", char |-> c]
NotAhead(w) == [kind |-> "notAhead", word |-> w]

IsWordAt(s, i) == i >= 1 /\ i <= Len(s) /\ s[i] \in WordChars

\* A zero-width assertion at position i (the next character is s[i]).
Holds(s, i, it) ==
  CASE it.kind = "bol" -> i = 1 \/ s[i - 1] \in LineTerminators
    [] it.kind = "eol" -> i = Len(s) + 1 \/ s[i] \in LineTerminators
    [] it.kind = "wordb" -> IsWordAt(s, i - 1) # IsWordAt(s, i)
    [] it.kind = "notBehind" -> ~(i > 1 /\ s[i - 1] = it.char)
    [] it.kind = "notAhead" ->
         ~(i + Len(it.word) - 1 <= Len(s)
            /\ SubSeq(s, i, i + Len(it.word) - 1) = it.word)

\* How many characters from position i on are in cls, up to max.
RECURSIVE Run(_, _, _, _)
Run(s, i, cls, max) ==
  IF max # 0 /\ i <= Len(s) /\ InCls(s[i], cls)
    THEN 1 + Run(s, i + 1, cls, IF max = -1 THEN -1 ELSE max - 1)
    ELSE 0

Fail == <<-1>>
NoMatch == [from |-> 0, ends |-> <<>>, alt |-> 0]

\* Items k.. of pat matched from position i: the position after each item,
\* or Fail.
RECURSIVE MatchItems(_, _, _, _)
RECURSIVE TryCounts(_, _, _, _, _, _)
MatchItems(s, pat, k, i) ==
  IF k > Len(pat) THEN <<>>
  ELSE IF pat[k].kind = "rep"
    THEN LET avail == Run(s, i, pat[k].cls, pat[k].max)
         IN IF avail < pat[k].min THEN Fail
            ELSE TryCounts(s, pat, k, i,
                           IF pat[k].lazy THEN pat[k].min ELSE avail, avail)
  ELSE IF Holds(s, i, pat[k])
    THEN LET rest == MatchItems(s, pat, k + 1, i)
         IN IF rest = Fail THEN Fail ELSE <<i>> \o rest
  ELSE Fail

TryCounts(s, pat, k, i, n, avail) ==
  LET rest == MatchItems(s, pat, k + 1, i + n)
  IN IF rest # Fail THEN <<i + n>> \o rest
     ELSE IF pat[k].lazy
       THEN IF n < avail THEN TryCounts(s, pat, k, i, n + 1, avail) ELSE Fail
     ELSE IF n > pat[k].min THEN TryCounts(s, pat, k, i, n - 1, avail) ELSE Fail

\* The first alternative from a on that matches at position i, as a match
\* [from, ends, alt], or NoMatch.
RECURSIVE MatchAt(_, _, _, _)
MatchAt(s, alts, a, i) ==
  IF a > Len(alts) THEN NoMatch
  ELSE LET ends == MatchItems(s, alts[a], 1, i)
       IN IF ends # Fail THEN [from |-> i, ends |-> ends, alt |-> a]
          ELSE MatchAt(s, alts, a + 1, i)

\* The position after the match.
EndOf(m) == m.ends[Len(m.ends)]

\* All matches of a global regular expression, left to right: the search
\* resumes after each match (no pattern here matches the empty text).
RECURSIVE FindAll(_, _, _)
FindAll(s, alts, i) ==
  IF i > Len(s) THEN <<>>
  ELSE LET m == MatchAt(s, alts, 1, i)
       IN IF m = NoMatch THEN FindAll(s, alts, i + 1)
          ELSE <<m>> \o FindAll(s, alts, EndOf(m))

\* The text matched, and the text matched by items a..b (a capture group).
Matched(s, m) == SubSeq(s, m.from, EndOf(m) - 1)
Group(s, m, a, b) ==
  SubSeq(s, IF a = 1 THEN m.from ELSE m.ends[a - 1], m.ends[b] - 1)

\* text.replace(regex, ...): the k-th match replaced by reps[k].
RECURSIVE Splice(_, _, _, _, _)
Splice(s, ms, reps, k, i) ==
  IF k > Len(ms) THEN SubSeq(s, i, Len(s))
  ELSE SubSeq(s, i, ms[k].from - 1) \o reps[k]
         \o Splice(s, ms, reps, k + 1, EndOf(ms[k]))

Replace(s, ms, reps) == Splice(s, ms, reps, 1, 1)

----------------------------------------------------------------------------
(* Sample texts *)

BoldMarker == <<"*", "*">>
Fence == <<Backtick, Backtick, Backtick>>

\* Scenario 1: bold markers with two spaces inside each side
Scenario1 ==
  <<"*", "*", " ", " ", "h", "e", "l", "l", "o", " ", " ", "*", "*">>

\* Scenario 2: a level-3 heading right after a level-1 heading
Scenario2 ==
  <<"#", " ", "A", "\n", "#", "#", "#", " ", "B">>

\* Scenario 3: a single unmatched bold marker
Scenario3 ==
  <<"*", "*", "f", "o", "o">>

\* An inline code span holding a camel-case name
CodeSpanSample ==
  <<Backtick, "a", "B", Backtick>>

\* A raw URL holding a camel-case segment
UrlSample ==
  <<"h", "t", "t", "p", ":", "/", "/", "a", "/", "b", "C">>

\* A fenced code block
FenceSample ==
  <<Backtick, Backtick, Backtick, "\n", "a", "B", "\n", Backtick, Backtick, Backtick>>

\* A URL in doubled bold markers
NestedBoldUrl ==
  <<"*", "*", "*", "*", "h", "t", "t", "p", ":", "/", "/", "a", "*", "*",
    "*", "*">>

\* The start of a URL token right before a URL
UrlPrefixSample ==
  <<"_", "_", "U", "R", "L", "_", "P", "L", "A", "C", "E", "H", "O", "L",
    "D", "E", "R", "_", "1", "h", "t", "t", "p", ":", "/", "/", "a">>

\* The start of a code-block token right before a code span
CodePrefixSample ==
  <<"_", "_", "C", "O", "D", "E", "B", "L", "O", "C", "K", "_", "1", Backtick,
    "a", Backtick>>

\* A list marker whose line ends in white space
ListItalicSample ==
  <<"*", " ", "\n", "a", "*">>

\* Prose with a URL and a code span
ProseSample ==
  <<"s", "e", "e", " ", "h", "t", "t", "p", ":", "/", "/", "a", " ", "a",
    "n", "d", " ", Backtick, "b", Backtick>>

\* A heading after two blank lines
TwoBlankLinesHeading == <<"a", "\n", "\n", "\n", "#", " ", "b">>

\* The same italic repair at two places
RepeatedItalicSample == <<"*", "a", " ", "*", " ", "*", "a", " ", "*">>

\* A backslash between two bold markers
BackslashInBold == <<"*", "*", Backslash, "*", "*">>

\* Five newlines, then an unclosed fence glued to its first line
BlankRunBeforeFence ==
  <<"a", "\n", "\n", "\n", "\n", "\n">> \o Fence \o <<"\n", "b">>

\* Two code spans with a word between them
CodeSpansApart ==
  <<Backtick, "a", Backtick, " ", "b", " ", Backtick, "c", Backtick>>

\* One text for each pass that has something to rewrite in it.
PassSamples ==
  {
    <<Backslash, "*", Backslash, "*", "a", Backslash, "*", Backslash, "*">>,
    <<"*", "*", "h", "t", "t", "p", ":", "/", "/", "a", "*", "*">>,
    <<"*", " ", "a", " ", "*">>,
    <<"*", " ", "a", "*">>,
    <<"*", "a", " ", "*">>,
    <<"~", "~", " ", "a", " ", "~", "~">>,
    <<Backtick, " ", "a", " ", Backtick>>,
    <<"a", "\n", "\n", "\n", "\n", "\n", "b">>,
    <<"a", "\n", Backtick, Backtick, Backtick, "\n", "b", "\n", Backtick, Backtick, Backtick, "\n", "c">>,
    <<"a", "r", "e", "t", "e", "s", "t", "e", "d">>,
    <<"t", "e", "s", "t", "e", "d", "a", "n", "d">>,
    <<"M", "o", "s", "t", "a", "r", "e", "o", "f", "f", "i", "c", "i", "a",
      "l">>,
    <<"r", "e", "p", "o", "r", "t", "s", "I", "n", "t", "e", "r", "n", "a",
      "l">>,
    <<"s", "y", "s", "t", "e", "m", "s", ".", "-", "-", "-">>,
    <<"-", " ", " ", "a">>,
    <<"-", " ", "*", "*", "U+26A0 U+FE0F", " ", "D", "O", " ", "N", "O", "T",
      ":", "*", "*", " ", "a">>,
    <<"-", " ", "*", "*", "U+26A0 U+FE0F", "C", "A", "U", "T", "I", "O", "N",
      ":", " ", "a">>,
    <<"N", "o", "t", "e", ":", " ", "a">> }

----------------------------------------------------------------------------
(* Request arguments *)

MaxContentSize == 10485760

\* Markdown arguments: what the code reads of them.  kind: "missing"
\* (undefined), "nonstring" (a truthy non-string) or "string"; size is
\* Buffer.byteLength, blank is trim().length === 0, lineCount is
\* split("\n").length, mermaid is the /```mermaid/i test.
Markdown(kind, size, blank, lineCount, mermaid) ==
  [kind |-> kind, size |-> size, blank |-> blank, lineCount |-> lineCount,
   mermaid |-> mermaid]

Markdowns ==
  { Markdown("missing", 0, TRUE, 0, FALSE),
    Markdown("nonstring", 0, FALSE, 0, FALSE),
    Markdown("string", 0, TRUE, 1, FALSE),
    Markdown("string", 2, TRUE, 1, FALSE),
    Markdown("string", 40, FALSE, 4, TRUE),
    Markdown("string", MaxContentSize, FALSE, 1, FALSE),
    Markdown("string", MaxContentSize + 1, FALSE, 2, FALSE),
    Markdown("string", 11 * 1024 * 1024, FALSE, 30000, TRUE) }

NoMarkdown == Markdown("missing", 0, TRUE, 0, FALSE)

ToolNames == {"convert_markdown_to_pdf", "other_tool"}

\* "" is an absent (or empty, equally falsy) optional field.
PAPER_FORMATS == {"letter", "legal", "tabloid", "ledger", "a0", "a1", "a2",
                  "a3", "a4", "a5", "a6"}
PaperFormatArgs == {"a4", "b5"}
OrientationArgs == {"", "diagonal"}
WatermarkScopeArgs == {"first-page", "last-page"}
CodeThemeArgs == {"", "sepia"}

\* outputFilename as <<stem, extension>>; the file name is stem \o extension.
FilenameArgs == {<<"", "">>, <<"output", "">>, <<"output-1", ".pdf">>}

\* Two requests at once: the optional watermark, customCss and
\* skipPreprocessing are absent.
Args ==
  [name : ToolNames, markdown : Markdowns, outputFilename : FilenameArgs,
   paperFormat : PaperFormatArgs, paperOrientation : OrientationArgs,
   watermarkScope : WatermarkScopeArgs, codeTheme : CodeThemeArgs,
   watermark : {""}, customCss : {""}, skipPreprocessing : {FALSE}]

\* /```mermaid/i.test(markdown)
hasMermaidDiagrams(text) ==
  FindAll(text, << Word(Fence) \o WordI(<<"m", "e", "r", "m", "a", "i", "d">>) >>, 1)
    # <<>>

\* A markdown argument that is the string `text`.
TextMarkdown(text) ==
  [kind |-> "string", size |-> Len(text), blank |-> Trim(text) = <<>>,
   lineCount |-> Len(Split(text, "\n")), mermaid |-> hasMermaidDiagrams(text),
   text |-> text]

\* Line counts below, at and above the count at which the timeout stops
\* growing (27000), one apart and far apart.
LineCounts ==
  {k * LineStep + d : k \in 0..MaxLineSteps, d \in {-1, 0, 1}} \ {-1, 0}

\* One request alone: documents of every line count with and without a
\* diagram block, short texts, and the options of the HTML envelope and of
\* preprocessing.
WideMarkdowns ==
  {Markdown("string", 2 * n + (IF mermaid THEN 10 ELSE 0), FALSE, n, mermaid) :
     n \in LineCounts, mermaid \in BOOLEAN}
    \cup {TextMarkdown(t) : t \in {Scenario2, Scenario3, CodeSpanSample}}

WideArgs ==
  [name : {"convert_markdown_to_pdf"}, markdown : WideMarkdowns,
   outputFilename : {<<"output", "">>}, paperFormat : {"a4"},
   paperOrientation : {""}, watermarkScope : {"", "all-pages", "first-page"},
   codeTheme : {""}, watermark : {"", "DRAFT"}, customCss : {"", "h1{}"},
   skipPreprocessing : BOOLEAN]

----------------------------------------------------------------------------
(* index.ts: validation of the tool call, before any conversion starts *)

\* JavaScript truthiness of the markdown argument ("" and undefined are falsy).
Truthy(m) == m.kind = "nonstring" \/ (m.kind = "string" /\ m.size > 0)

\* The message of the McpError the handler throws, or "ok".
HandlerValidate(a) ==
  IF a.name # "convert_markdown_to_pdf" THEN "Unknown tool"
  ELSE IF ~Truthy(a.markdown) \/ a.markdown.kind # "string"
    THEN "Missing or invalid 'markdown' parameter"
  ELSE IF a.paperFormat # "" /\ a.paperFormat \notin PAPER_FORMATS
    THEN "Invalid paper format"
  ELSE IF (IF a.paperOrientation = "" THEN "portrait" ELSE a.paperOrientation)
            \notin {"portrait", "landscape"}
    THEN "Invalid paper orientation"
  ELSE IF (IF a.watermarkScope = "" THEN "all-pages" ELSE a.watermarkScope)
            \notin {"all-pages", "first-page"}
    THEN "Invalid watermark scope"
  ELSE IF (IF a.codeTheme = "" THEN "light" ELSE a.codeTheme)
            \notin {"light", "dark"}
    THEN "Invalid code theme"
  ELSE "ok"

\* The options of the convertMarkdownToPdf call other than markdown and
\* outputPath (paper, margin, header and footer do not reach the model).
OptionsOf(a) ==
  [watermark |-> a.watermark,
   watermarkScope |-> IF a.watermarkScope = "" THEN "all-pages"
                      ELSE a.watermarkScope,
   codeTheme |-> IF a.codeTheme = "" THEN "light" ELSE a.codeTheme,
   customCss |-> a.customCss,
   skipPreprocessing |-> a.skipPreprocessing]

NoOptions ==
  [watermark |-> "", watermarkScope |-> "all-pages", codeTheme |-> "light",
   customCss |-> "", skipPreprocessing |-> FALSE]

\* filename = args.outputFilename || "output.pdf", ".pdf" appended unless the
\* name ends with it.
SanitizedFilename(f) ==
  LET filename == IF f = <<"", "">> THEN <<"output", ".pdf">> ELSE f
  IN IF filename[2] = ".pdf" THEN filename
     ELSE <<filename[1] \o filename[2], ".pdf">>

PathOf(file) == file[1] \o file[2]

existsSync(path) == path \in DOMAIN fs

\* The while loop of getUniqueFilename: newPath is tried, then base-counter.ext.
RECURSIVE UniqueLoop(_, _, _, _)
UniqueLoop(base, ext, counter, newPath) ==
  IF existsSync(newPath)
    THEN UniqueLoop(base, ext, counter + 1, base \o "-" \o ToString(counter) \o ext)
    ELSE newPath

getUniqueFilename(file) ==
  IF ~existsSync(PathOf(file)) THEN PathOf(file)
  ELSE UniqueLoop(file[1], file[2], 1, PathOf(file))

----------------------------------------------------------------------------
(* converter.ts: results and the exit of convertMarkdownToPdf *)

NoBrowser == 0
NoResult == [kind |-> "none"]
Pending == [state |-> "pending", value |-> NoResult]
NoResponse == [kind |-> "none"]

\* The two early returns of the validation gate.
ValidationFailure(path, message) ==
  [success |-> FALSE, outputPath |-> path, error |-> message]

\* The return of the catch block.
CatchResult(path, message) ==
  [success |-> FALSE, outputPath |-> path, error |-> message,
   processingTimeMs |-> "elapsed"]

SuccessResult(path, m, pageCount) ==
  [success |-> TRUE, outputPath |-> path, pageCount |-> pageCount,
   contentSize |-> m.size, lineCount |-> m.lineCount,
   processingTimeMs |-> "elapsed", hasMermaidDiagrams |-> m.mermaid]

\* timeout = base + min(lineCount * 10, 270000) + (mermaid ? 30000 : 0)
Min(a, b) == IF a < b THEN a ELSE b

\* Timeout without the cap on the part that grows with the line count.
TimeoutUncapped(m) ==
  30000 + m.lineCount * 10 + (IF m.mermaid THEN 30000 ELSE 0)

Timeout(m) ==
  30000 + Min(m.lineCount * 10, 270000) + (IF m.mermaid THEN 30000 ELSE 0)

\* generateHtmlDocument: the blocks of the template, in the order of the
\* template.  "" is an absent (or empty, equally falsy) watermark or customCss.
generateHtmlDocument(o, includeMermaid) ==
  <<"styles">>
    \o (IF includeMermaid THEN <<"mermaidStyles">> ELSE <<>>)
    \o (IF o.customCss # "" THEN <<"customCss">> ELSE <<>>)
    \o (IF o.watermarkScope = "first-page"
          THEN <<"firstPageWatermarkStyles">> ELSE <<>>)
    \o (IF includeMermaid THEN <<"mermaidScript">> ELSE <<>>)
    \o (IF o.watermark # "" THEN <<"watermarkHtml">> ELSE <<>>)
    \o <<"content">>

\* The artifact as page.pdf writes it and readFileSync reads it back: a
\* sequence of characters, one per byte (buffer.toString("binary")).
TypeKey == <<"/", "T", "y", "p", "e">>
PageKey == <<"/", "P", "a", "g", "e">>

\* /\/Type[\s]*\/Page[^s]/g
pageObjectPattern ==
  << Word(TypeKey) \o <<Star(Space)>> \o Word(PageKey) \o <<One(Not({"s"}))>> >>

\* countPdfPages without the default of 1.
countPdfPagesWithoutDefault(buffer) ==
  Len(FindAll(buffer, pageObjectPattern, 1))

\* matches ? matches.length : 1 (match gives null when nothing matches).
countPdfPages(buffer) ==
  LET matches == FindAll(buffer, pageObjectPattern, 1)
  IN IF matches = <<>> THEN 1 ELSE Len(matches)

\* An artifact of two pages: the page tree and two page objects.
TwoPageArtifact ==
  TypeKey \o <<" ">> \o PageKey \o <<"s", "\n">>
    \o TypeKey \o <<" ">> \o PageKey \o <<"\n">>
    \o TypeKey \o PageKey \o <<"\n">>

Artifacts == {TwoPageArtifact}

\* Byte streams of up to n fragments: the two keys of a page object, white
\* space, the "s" of the page tree's /Pages.
ByteFragments == {TypeKey, PageKey, <<" ">>, <<"\n">>, <<"s">>}

RECURSIVE Streams(_)
Streams(n) ==
  IF n = 0 THEN {<<>>}
  ELSE LET shorter == Streams(n - 1)
       IN shorter \cup {t \o f : t \in shorter, f \in ByteFragments}

Log(r, ev) == [events EXCEPT ![r] = Append(@, ev)]

\* Exit with the close at the end of the try block instead of in a finally
\* block: a failure result leaves without closing.
ExitClosingOnSuccessOnly(r, result) ==
  /\ completion' = [completion EXCEPT ![r] = result]
  /\ IF browser[r] # NoBrowser /\ result.success
       THEN /\ pc' = [pc EXCEPT ![r] = "close"]
            /\ promise' = promise
       ELSE /\ pc' = [pc EXCEPT ![r] = "settled"]
            /\ promise' = [promise EXCEPT ![r] =
                             [state |-> "resolved", value |-> result]]

\* Exit handing the result to the caller at the return statement, before the
\* finally block has closed the browser.
ExitSettlingBeforeClose(r, result) ==
  /\ completion' = [completion EXCEPT ![r] = result]
  /\ pc' = [pc EXCEPT ![r] = IF browser[r] # NoBrowser THEN "close"
                              ELSE "settled"]
  /\ promise' = [promise EXCEPT ![r] =
                   [state |-> "resolved", value |-> result]]

\* A return statement (of the try block or of the catch block) was executed
\* with value `result`; the finally block runs next: with a browser it calls
\* browser.close() and awaits it, without one the promise resolves.
Exit(r, result) ==
  /\ completion' = [completion EXCEPT ![r] = result]
  /\ IF browser[r] # NoBrowser
       THEN /\ pc' = [pc EXCEPT ![r] = "close"]
            /\ promise' = promise
       ELSE /\ pc' = [pc EXCEPT ![r] = "settled"]
            /\ promise' = [promise EXCEPT ![r] =
                             [state |-> "resolved", value |-> result]]

\* A page or browser call of conversion r goes to the session its local
\* `browser` names.
Use(r) == [sessions EXCEPT ![browser[r]].users = @ \cup {r}]

----------------------------------------------------------------------------
(* The handler and the orchestrator, one action per synchronous segment *)

\* The size check with >= for >.
ExceedsLimitInclusive(size) == size >= MaxContentSize

\* The size check of the validation gate.
ExceedsLimit(size) == size > MaxContentSize

\* convertMarkdownToPdf from its entry to `await marked.parse(markdown)`:
\* the validation gate, then the output directory is created when missing.
ConvertStart(r, m, path, o) ==
  /\ md' = [md EXCEPT ![r] = m]
  /\ outputPath' = [outputPath EXCEPT ![r] = path]
  /\ options' = [options EXCEPT ![r] = o]
  /\ response' = response
  /\ IF ~Truthy(m) \/ m.blank
       THEN /\ Exit(r, ValidationFailure(path, "Markdown content is empty"))
            /\ UNCHANGED <<events, parsed>>
     ELSE IF ExceedsLimit(m.size)
       THEN /\ Exit(r, ValidationFailure(path, "Markdown content exceeds 10MB limit"))
            /\ UNCHANGED <<events, parsed>>
     ELSE \E mkdir \in {"ok", "throw"} :
            IF mkdir = "throw"
              THEN /\ Exit(r, CatchResult(path, "mkdir failed"))
                   /\ events' = Log(r, "mkdirFailed")
                   /\ parsed' = parsed
              ELSE /\ pc' = [pc EXCEPT ![r] = "parse"]
                   /\ events' = Log(r, "parse")
                   /\ parsed' = [parsed EXCEPT ![r] = m]
                   /\ UNCHANGED <<completion, promise>>

\* The request handler, called with arguments a, up to its first await: the
\* McpError throws, the output path, then the call of convertMarkdownToPdf.
Handle(r, a) ==
  /\ LET v == HandlerValidate(a) IN
     IF v # "ok"
       THEN /\ response' = [response EXCEPT ![r] = [kind |-> "thrown", error |-> v]]
            /\ md' = [md EXCEPT ![r] = a.markdown]
            /\ pc' = [pc EXCEPT ![r] = "done"]
            /\ UNCHANGED <<outputPath, options, parsed, completion, promise,
                           events>>
       ELSE ConvertStart(r, a.markdown,
                         getUniqueFilename(SanitizedFilename(a.outputFilename)),
                         OptionsOf(a))
  /\ UNCHANGED <<fullHtml, timeout, browser, fs, sessions, scanVars, normVars>>

CallTool(r) == pc[r] = "idle" /\ \E a \in Args : Handle(r, a)

CallToolWide(r) == pc[r] = "idle" /\ \E a \in WideArgs : Handle(r, a)

\* marked.parse settles; the HTML envelope and the timeout are computed and
\* puppeteer.launch is called.
Parsed(r) ==
  /\ pc[r] = "parse"
  /\ \E out \in {"ok", "throw"} :
       IF out = "throw"
         THEN /\ Exit(r, CatchResult(outputPath[r], "parse failed"))
              /\ events' = Log(r, "parseFailed")
              /\ UNCHANGED <<fullHtml, timeout>>
         ELSE /\ pc' = [pc EXCEPT ![r] = "launch"]
              /\ events' = Log(r, "launch")
              /\ fullHtml' = [fullHtml EXCEPT ![r] =
                                generateHtmlDocument(options[r], md[r].mermaid)]
              /\ timeout' = [timeout EXCEPT ![r] = Timeout(md[r])]
              /\ UNCHANGED <<completion, promise>>
  /\ UNCHANGED <<md, outputPath, options, parsed, browser, response, fs,
                 sessions, scanVars, normVars>>

\* Launched taking a session from a pool: an open session is reused when there
\* is one.
LaunchedFromPool(r) ==
  /\ pc[r] = "launch"
  /\ IF \E s \in 1..Len(sessions) : sessions[s].state = "open"
       THEN /\ sessions' = sessions
            /\ browser' = [browser EXCEPT ![r] =
                 CHOOSE s \in 1..Len(sessions) : sessions[s].state = "open"]
       ELSE /\ sessions' = Append(sessions, [owner |-> r, state |-> "open",
                                             users |-> {}, closers |-> {}])
            /\ browser' = [browser EXCEPT ![r] = Len(sessions) + 1]
  /\ pc' = [pc EXCEPT ![r] = "newPage"]
  /\ events' = Log(r, "launched")
  /\ UNCHANGED <<md, outputPath, completion, promise, response, fs, scanVars,
                 prepVars, normVars>>

\* puppeteer.launch settles: a fresh session is assigned to `browser` and
\* browser.newPage is called.
Launched(r) ==
  /\ pc[r] = "launch"
  /\ \E out \in {"ok", "throw"} :
       IF out = "throw"
         THEN /\ Exit(r, CatchResult(outputPath[r], "launch failed"))
              /\ events' = Log(r, "launchFailed")
              /\ UNCHANGED <<browser, sessions>>
         ELSE /\ sessions' = Append(sessions, [owner |-> r, state |-> "open",
                                               users |-> {}, closers |-> {}])
              /\ browser' = [browser EXCEPT ![r] = Len(sessions) + 1]
              /\ pc' = [pc EXCEPT ![r] = "newPage"]
              /\ events' = Log(r, "launched")
              /\ UNCHANGED <<completion, promise>>
  /\ UNCHANGED <<md, outputPath, response, fs, scanVars,
                 prepVars, normVars>>

\* An awaited page call that only succeeds or throws: on success the next call
\* is made.
PageStep(r, at, next) ==
  /\ pc[r] = at
  /\ sessions' = Use(r)
  /\ \E out \in {"ok", "throw"} :
       IF out = "throw"
         THEN /\ Exit(r, CatchResult(outputPath[r], at \o " failed"))
              /\ events' = Log(r, at \o "Failed")
         ELSE /\ pc' = [pc EXCEPT ![r] = next]
              /\ events' = Log(r, next)
              /\ UNCHANGED <<completion, promise>>
  /\ UNCHANGED <<md, outputPath, browser, response, fs, scanVars,
                 prepVars, normVars>>

NewPage(r) == PageStep(r, "newPage", "setViewport")
SetViewport(r) == PageStep(r, "setViewport", "setContent")

\* page.setContent settles: loaded, not settled within `timeout`, or another
\* error.
SetContent(r) ==
  /\ pc[r] = "setContent"
  /\ sessions' = Use(r)
  /\ \E out \in {"ok", "timeout", "throw"} :
       CASE out = "ok" ->
              /\ pc' = [pc EXCEPT ![r] = "fonts"]
              /\ events' = Log(r, "fonts")
              /\ UNCHANGED <<completion, promise>>
         [] out = "timeout" ->
              /\ Exit(r, CatchResult(outputPath[r], "Navigation timeout exceeded"))
              /\ events' = Log(r, "loadTimeout")
         [] out = "throw" ->
              /\ Exit(r, CatchResult(outputPath[r], "setContent failed"))
              /\ events' = Log(r, "setContentFailed")
  /\ UNCHANGED <<md, outputPath, browser, response, fs, scanVars,
                 prepVars, normVars>>

\* Fonts going on to page.pdf whether or not the markdown has diagrams.
FontsSkippingDiagramWait(r) ==
  /\ pc[r] = "fonts"
  /\ sessions' = Use(r)
  /\ \E out \in {"ok", "throw"} :
       IF out = "throw"
         THEN /\ Exit(r, CatchResult(outputPath[r], "fonts failed"))
              /\ events' = Log(r, "fontsFailed")
         ELSE /\ pc' = [pc EXCEPT ![r] = "pdf"]
              /\ events' = Log(r, "pdf")
              /\ UNCHANGED <<completion, promise>>
  /\ UNCHANGED <<md, outputPath, browser, response, fs, scanVars,
                 prepVars, normVars>>

\* document.fonts.ready settles; with diagrams page.waitForFunction is called,
\* without them page.pdf.
Fonts(r) ==
  /\ pc[r] = "fonts"
  /\ sessions' = Use(r)
  /\ \E out \in {"ok", "throw"} :
       IF out = "throw"
         THEN /\ Exit(r, CatchResult(outputPath[r], "fonts failed"))
              /\ events' = Log(r, "fontsFailed")
         ELSE /\ pc' = [pc EXCEPT ![r] = IF md[r].mermaid THEN "mermaid" ELSE "pdf"]
              /\ events' = Log(r, IF md[r].mermaid THEN "mermaid" ELSE "pdf")
              /\ UNCHANGED <<completion, promise>>
  /\ UNCHANGED <<md, outputPath, browser, response, fs, scanVars,
                 prepVars, normVars>>

\* page.waitForFunction settles: whatever it throws is swallowed by the inner
\* catch, and page.pdf is called.
MermaidWait(r) ==
  /\ pc[r] = "mermaid"
  /\ sessions' = Use(r)
  /\ \E out \in {"ok", "timeout"} :
       events' = [events EXCEPT ![r] =
                    IF out = "timeout" THEN @ \o <<"mermaidTimeout", "pdf">>
                    ELSE @ \o <<"pdf">>]
  /\ pc' = [pc EXCEPT ![r] = "pdf"]
  /\ UNCHANGED <<md, outputPath, browser, completion, promise, response, fs,
                 scanVars,
                 prepVars, normVars>>

\* page.pdf settles: the artifact, one of `streams`, has been written at
\* outputPath, or the call throws.
Export(r, streams) ==
  /\ pc[r] = "pdf"
  /\ sessions' = Use(r)
  /\ \/ /\ \E bytes \in streams :
             fs' = [p \in DOMAIN fs \cup {outputPath[r]} |->
                      IF p = outputPath[r] THEN [by |-> r, bytes |-> bytes]
                      ELSE fs[p]]
        /\ pc' = [pc EXCEPT ![r] = "read"]
        /\ events' = Log(r, "exported")
        /\ UNCHANGED <<completion, promise>>
     \/ /\ Exit(r, CatchResult(outputPath[r], "pdf failed"))
        /\ events' = Log(r, "pdfFailed")
        /\ fs' = fs
  /\ UNCHANGED <<md, outputPath, browser, response, scanVars,
                 prepVars, normVars>>

Pdf(r) == Export(r, Artifacts)

\* page.pdf writing any byte stream of up to MaxBytes fragments.
PdfAnyArtifact(r) == Export(r, Streams(MaxBytes))

\* page.pdf has resolved: the artifact is read back, its pages are counted and
\* the success result is returned.
ReadBack(r) ==
  /\ pc[r] = "read"
  /\ \E out \in {"ok", "throw"} :
       IF out = "throw"
         THEN /\ Exit(r, CatchResult(outputPath[r], "read failed"))
              /\ events' = Log(r, "readFailed")
         ELSE /\ Exit(r, SuccessResult(outputPath[r], md[r],
                                       countPdfPages(fs[outputPath[r]].bytes)))
              /\ events' = Log(r, "read")
  /\ UNCHANGED <<md, outputPath, browser, response, fs, sessions, scanVars,
                 prepVars, normVars>>

\* The awaited browser.close() of the finally block settles.  The call is the
\* teardown of the session; when it throws, the error replaces the value that
\* was being returned and the promise rejects.
Close(r) ==
  /\ pc[r] = "close"
  /\ sessions' = [sessions EXCEPT ![browser[r]].state = "closed",
                                  ![browser[r]].closers = @ \cup {r}]
  /\ \E out \in {"ok", "throw"} :
       IF out = "ok"
         THEN /\ promise' = [promise EXCEPT ![r] =
                               [state |-> "resolved", value |-> completion[r]]]
              /\ events' = Log(r, "closed")
         ELSE /\ promise' = [promise EXCEPT ![r] =
                               [state |-> "rejected", value |-> NoResult]]
              /\ events' = Log(r, "closeFailed")
  /\ pc' = [pc EXCEPT ![r] = "settled"]
  /\ UNCHANGED <<md, outputPath, browser, completion, response, fs, scanVars,
                 prepVars, normVars>>

\* What the success message lists of result[field]: its entries, nothing when
\* the result has no such field.
Listed(result, field) ==
  IF field \in DOMAIN result THEN result[field] ELSE <<>>

\* Respond without the try/catch around the conversion: a rejection leaves the
\* handler as a thrown error.
RespondWithoutCatch(r) ==
  /\ pc[r] = "settled"
  /\ response' = [response EXCEPT ![r] =
       IF promise[r].state = "rejected"
         THEN [kind |-> "thrown", error |-> "rejected"]
       ELSE IF ~promise[r].value.success
         THEN [kind |-> "payload", isError |-> TRUE, via |-> "result"]
       ELSE [kind |-> "payload", isError |-> FALSE, via |-> "result",
             fixes |-> Listed(promise[r].value, "preprocessingFixes"),
             warnings |-> Listed(promise[r].value, "preprocessingWarnings")]]
  /\ pc' = [pc EXCEPT ![r] = "done"]
  /\ UNCHANGED <<md, outputPath, browser, completion, promise, events, fs,
                 sessions, scanVars,
                 prepVars, normVars>>

\* The handler resumes after `await convertMarkdownToPdf`: a failure result
\* and a rejection both become an isError payload.
Respond(r) ==
  /\ pc[r] = "settled"
  /\ response' = [response EXCEPT ![r] =
       IF promise[r].state = "rejected"
         THEN [kind |-> "payload", isError |-> TRUE, via |-> "catch"]
       ELSE IF ~promise[r].value.success
         THEN [kind |-> "payload", isError |-> TRUE, via |-> "result"]
       ELSE [kind |-> "payload", isError |-> FALSE, via |-> "result",
             fixes |-> Listed(promise[r].value, "preprocessingFixes"),
             warnings |-> Listed(promise[r].value, "preprocessingWarnings")]]
  /\ pc' = [pc EXCEPT ![r] = "done"]
  /\ UNCHANGED <<md, outputPath, browser, completion, promise, events, fs,
                 sessions, scanVars,
                 prepVars, normVars>>

\* The first n names getUniqueFilename goes through for output.pdf.
InitialFiles(n) ==
  {IF k = 0 THEN "output.pdf" ELSE "output-" \o ToString(k) \o ".pdf" :
     k \in 0..(n - 1)}

Init ==
  /\ pc = [r \in Requests |-> "idle"]
  /\ md = [r \in Requests |-> NoMarkdown]
  /\ outputPath = [r \in Requests |-> ""]
  /\ options = [r \in Requests |-> NoOptions]
  /\ parsed = [r \in Requests |-> NoMarkdown]
  /\ fullHtml = [r \in Requests |-> <<>>]
  /\ timeout = [r \in Requests |-> 0]
  /\ browser = [r \in Requests |-> NoBrowser]
  /\ completion = [r \in Requests |-> NoResult]
  /\ promise = [r \in Requests |-> Pending]
  /\ response = [r \in Requests |-> NoResponse]
  /\ events = [r \in Requests |-> <<>>]
  /\ \E n \in 0..MaxInitialFiles :
       fs = [p \in InitialFiles(n) |-> [by |-> 0, bytes |-> TwoPageArtifact]]
  /\ sessions = <<>>
  /\ lines = <<>>
  /\ idx = 0
  /\ fixedLines = <<>>
  /\ lastHeaderLevel = 0
  /\ fixes = <<>>
  /\ markdown = <<>>
  /\ processed = <<>>
  /\ warnings = <<>>
  /\ step = "none"
  /\ protectedUrls = <<>>
  /\ codeBlocks = <<>>

Next ==
  \E r \in Requests :
    \/ CallTool(r)
    \/ Parsed(r)
    \/ Launched(r)
    \/ NewPage(r)
    \/ SetViewport(r)
    \/ SetContent(r)
    \/ Fonts(r)
    \/ MermaidWait(r)
    \/ Pdf(r)
    \/ ReadBack(r)
    \/ Close(r)
    \/ Respond(r)

Spec == Init /\ [][Next]_vars

\* One request alone, its arguments drawn from WideArgs.
NextWide ==
  \/ CallToolWide(1)
  \/ Parsed(1)
  \/ Launched(1)
  \/ NewPage(1)
  \/ SetViewport(1)
  \/ SetContent(1)
  \/ Fonts(1)
  \/ MermaidWait(1)
  \/ Pdf(1)
  \/ ReadBack(1)
  \/ Close(1)
  \/ Respond(1)

SpecWide == Init /\ [][NextWide]_vars

\* One request at a time, page.pdf writing any artifact.
NextPages ==
  \/ CallTool(1)
  \/ Parsed(1)
  \/ Launched(1)
  \/ NewPage(1)
  \/ SetViewport(1)
  \/ SetContent(1)
  \/ Fonts(1)
  \/ MermaidWait(1)
  \/ PdfAnyArtifact(1)
  \/ ReadBack(1)
  \/ Close(1)
  \/ Respond(1)

SpecPages == Init /\ [][NextPages]_vars

----------------------------------------------------------------------------
(* preprocessor.ts, Fix 5: the heading scan.  A line is a sequence of       *)
(* characters.                                                              *)

RECURSIVE LeadingHashes(_)
LeadingHashes(s) ==
  IF Len(s) > 0 /\ Head(s) = "#" THEN 1 + LeadingHashes(Tail(s)) ELSE 0

\* trimmedLine.match(/^(#{1,6})\s+.+/): the number of marker characters of a
\* heading line, 0 for a line that is no heading.  On a trimmed line the last
\* character is no white space, so `\s+.+` asks for a white space after the
\* markers and one more character.
HeaderLevel(line) ==
  LET t == Trim(line)
      n == LeadingHashes(t)
  IN IF n >= 1 /\ n <= 6 /\ Len(t) >= n + 2 /\ IsSpace(t[n + 1]) THEN n ELSE 0

RECURSIVE Repeat(_, _)
Repeat(c, n) == IF n = 0 THEN <<>> ELSE <<c>> \o Repeat(c, n - 1)

AddedBlankLine == "Added blank line before header"

HierarchyFix(currentLevel, last, fixedLevel) ==
  "Fixed heading hierarchy: h" \o ToString(currentLevel) \o " after h"
    \o ToString(last) \o " -> h" \o ToString(fixedLevel)

\* ProcessLine remembering the level the heading asked for instead of the
\* level that was emitted.
ProcessLineKeepingAskedLevel(st, i, line) ==
  LET trimmedLine == Trim(line)
      currentLevel == HeaderLevel(line)
      needBlank == i > 0 /\ Trim(st.fixedLines[Len(st.fixedLines)]) # <<>>
      out1 == IF needBlank THEN Append(st.fixedLines, <<>>) ELSE st.fixedLines
      fixedLevel == st.lastHeaderLevel + 1
  IN IF currentLevel > 0
       THEN IF st.lastHeaderLevel > 0 /\ currentLevel > st.lastHeaderLevel + 1
              THEN [fixedLines |-> Append(out1,
                       Repeat("#", fixedLevel)
                         \o SubSeq(trimmedLine, currentLevel + 1, Len(trimmedLine))),
                    lastHeaderLevel |-> currentLevel,
                    fixes |-> st.fixes]
              ELSE [fixedLines |-> Append(out1, line),
                    lastHeaderLevel |-> currentLevel,
                    fixes |-> st.fixes]
       ELSE [fixedLines |-> Append(st.fixedLines, line),
             lastHeaderLevel |-> st.lastHeaderLevel,
             fixes |-> st.fixes]

\* ProcessLine inserting the blank line before a header without recording
\* a fix for it.
ProcessLineSilentBlankLine(st, i, line) ==
  LET trimmedLine == Trim(line)
      currentLevel == HeaderLevel(line)
      needBlank == i > 0 /\ Trim(st.fixedLines[Len(st.fixedLines)]) # <<>>
      out1 == IF needBlank THEN Append(st.fixedLines, <<>>) ELSE st.fixedLines
      fixedLevel == st.lastHeaderLevel + 1
  IN IF currentLevel > 0
       THEN IF st.lastHeaderLevel > 0 /\ currentLevel > st.lastHeaderLevel + 1
              THEN [fixedLines |-> Append(out1,
                       Repeat("#", fixedLevel)
                         \o SubSeq(trimmedLine, currentLevel + 1, Len(trimmedLine))),
                    lastHeaderLevel |-> fixedLevel,
                    fixes |-> Append(st.fixes,
                       HierarchyFix(currentLevel, st.lastHeaderLevel, fixedLevel))]
              ELSE [fixedLines |-> Append(out1, line),
                    lastHeaderLevel |-> currentLevel,
                    fixes |-> st.fixes]
       ELSE [fixedLines |-> Append(st.fixedLines, line),
             lastHeaderLevel |-> st.lastHeaderLevel,
             fixes |-> st.fixes]

\* ProcessLine forgetting the heading context at a line that is no heading.
ProcessLineResettingOnBodyText(st, i, line) ==
  LET trimmedLine == Trim(line)
      currentLevel == HeaderLevel(line)
      needBlank == i > 0 /\ Trim(st.fixedLines[Len(st.fixedLines)]) # <<>>
      out1 == IF needBlank THEN Append(st.fixedLines, <<>>) ELSE st.fixedLines
      fixes1 == IF needBlank /\ (\A k \in 1..Len(st.fixes) : st.fixes[k] # AddedBlankLine)
                  THEN Append(st.fixes, AddedBlankLine) ELSE st.fixes
      fixedLevel == st.lastHeaderLevel + 1
  IN IF currentLevel > 0
       THEN IF st.lastHeaderLevel > 0 /\ currentLevel > st.lastHeaderLevel + 1
              THEN [fixedLines |-> Append(out1,
                       Repeat("#", fixedLevel)
                         \o SubSeq(trimmedLine, currentLevel + 1, Len(trimmedLine))),
                    lastHeaderLevel |-> fixedLevel,
                    fixes |-> Append(fixes1,
                       HierarchyFix(currentLevel, st.lastHeaderLevel, fixedLevel))]
              ELSE [fixedLines |-> Append(out1, line),
                    lastHeaderLevel |-> currentLevel,
                    fixes |-> fixes1]
       ELSE [fixedLines |-> Append(st.fixedLines, line),
             lastHeaderLevel |-> 0,
             fixes |-> st.fixes]

\* ProcessLine emitting the trimmed line for a heading it does not demote.
ProcessLineTrimmingHeadings(st, i, line) ==
  LET trimmedLine == Trim(line)
      currentLevel == HeaderLevel(line)
      needBlank == i > 0 /\ Trim(st.fixedLines[Len(st.fixedLines)]) # <<>>
      out1 == IF needBlank THEN Append(st.fixedLines, <<>>) ELSE st.fixedLines
      fixes1 == IF needBlank /\ (\A k \in 1..Len(st.fixes) : st.fixes[k] # AddedBlankLine)
                  THEN Append(st.fixes, AddedBlankLine) ELSE st.fixes
      fixedLevel == st.lastHeaderLevel + 1
  IN IF currentLevel > 0
       THEN IF st.lastHeaderLevel > 0 /\ currentLevel > st.lastHeaderLevel + 1
              THEN [fixedLines |-> Append(out1,
                       Repeat("#", fixedLevel)
                         \o SubSeq(trimmedLine, currentLevel + 1, Len(trimmedLine))),
                    lastHeaderLevel |-> fixedLevel,
                    fixes |-> Append(fixes1,
                       HierarchyFix(currentLevel, st.lastHeaderLevel, fixedLevel))]
              ELSE [fixedLines |-> Append(out1, trimmedLine),
                    lastHeaderLevel |-> currentLevel,
                    fixes |-> fixes1]
       ELSE [fixedLines |-> Append(st.fixedLines, line),
             lastHeaderLevel |-> st.lastHeaderLevel,
             fixes |-> st.fixes]

\* One iteration of the loop over `lines`: st holds fixedLines,
\* lastHeaderLevel and fixes, i is the 0-based index of `line`.
ProcessLine(st, i, line) ==
  LET trimmedLine == Trim(line)
      currentLevel == HeaderLevel(line)
      needBlank == i > 0 /\ Trim(st.fixedLines[Len(st.fixedLines)]) # <<>>
      out1 == IF needBlank THEN Append(st.fixedLines, <<>>) ELSE st.fixedLines
      fixes1 == IF needBlank /\ (\A k \in 1..Len(st.fixes) : st.fixes[k] # AddedBlankLine)
                  THEN Append(st.fixes, AddedBlankLine) ELSE st.fixes
      fixedLevel == st.lastHeaderLevel + 1
  IN IF currentLevel > 0
       THEN IF st.lastHeaderLevel > 0 /\ currentLevel > st.lastHeaderLevel + 1
              THEN [fixedLines |-> Append(out1,
                       Repeat("#", fixedLevel)
                         \o SubSeq(trimmedLine, currentLevel + 1, Len(trimmedLine))),
                    lastHeaderLevel |-> fixedLevel,
                    fixes |-> Append(fixes1,
                       HierarchyFix(currentLevel, st.lastHeaderLevel, fixedLevel))]
              ELSE [fixedLines |-> Append(out1, line),
                    lastHeaderLevel |-> currentLevel,
                    fixes |-> fixes1]
       ELSE [fixedLines |-> Append(st.fixedLines, line),
             lastHeaderLevel |-> st.lastHeaderLevel,
             fixes |-> st.fixes]

ScanLine ==
  /\ idx < Len(lines)
  /\ LET st == ProcessLine([fixedLines |-> fixedLines,
                            lastHeaderLevel |-> lastHeaderLevel,
                            fixes |-> fixes], idx, lines[idx + 1])
     IN /\ fixedLines' = st.fixedLines
        /\ lastHeaderLevel' = st.lastHeaderLevel
        /\ fixes' = st.fixes
  /\ idx' = idx + 1
  /\ UNCHANGED <<lines, convVars, normVars>>

Heading(n) == Repeat("#", n) \o <<" ", "a">>

\* Input lines: blank and body lines, a heading of every level, an indented
\* heading, a heading whose text starts with a marker, and the two
\* near-headings the pattern rejects (seven markers, no space after them).
InputLines ==
  {<<>>, <<"a">>, <<"#", "a">>, Repeat("#", 7) \o <<" ", "a">>,
   <<" ">> \o Heading(3) \o <<" ">>, Repeat("#", 4) \o <<" ", "#", " ", "a">>}
    \cup {Heading(n) : n \in 1..6}

RECURSIVE SeqsUpTo(_, _)
SeqsUpTo(S, n) ==
  IF n = 0 THEN {<<>>}
  ELSE LET shorter == SeqsUpTo(S, n - 1)
       IN shorter \cup {Append(q, x) : q \in {t \in shorter : Len(t) = n - 1}, x \in S}

InitScan ==
  /\ pc = [r \in Requests |-> "idle"]
  /\ md = [r \in Requests |-> NoMarkdown]
  /\ outputPath = [r \in Requests |-> ""]
  /\ options = [r \in Requests |-> NoOptions]
  /\ parsed = [r \in Requests |-> NoMarkdown]
  /\ fullHtml = [r \in Requests |-> <<>>]
  /\ timeout = [r \in Requests |-> 0]
  /\ browser = [r \in Requests |-> NoBrowser]
  /\ completion = [r \in Requests |-> NoResult]
  /\ promise = [r \in Requests |-> Pending]
  /\ response = [r \in Requests |-> NoResponse]
  /\ events = [r \in Requests |-> <<>>]
  /\ fs = <<>>
  /\ sessions = <<>>
  /\ lines \in SeqsUpTo(InputLines, MaxLines)
  /\ idx = 0
  /\ fixedLines = <<>>
  /\ lastHeaderLevel = 0
  /\ fixes = <<>>
  /\ markdown = <<>>
  /\ processed = <<>>
  /\ warnings = <<>>
  /\ step = "none"
  /\ protectedUrls = <<>>
  /\ codeBlocks = <<>>

NextScan == ScanLine

SpecScan == InitScan /\ [][NextScan]_vars

----------------------------------------------------------------------------
(* preprocessor.ts: preprocessMarkdown, pass by pass.  A pass takes and     *)
(* gives [processed, fixes].                                                *)

\* The descriptions that are not "", in order.
Recorded(descs) == SelectSeq(descs, LAMBDA d : d # "")

\* Fix 0: /\\?\*\\?\*\s*([^*]+?)\s*\\?\*\\?\*/g
escapedBoldPattern ==
  << <<Opt(Cls({Backslash})), Lit("*"), Opt(Cls({Backslash})), Lit("*"),
       Star(Space), PlusLazy(Not({"*"})), Star(Space),
       Opt(Cls({Backslash})), Lit("*"), Opt(Cls({Backslash})), Lit("*")>> >>

Fix0(st) ==
  LET s == st.processed
      ms == FindAll(s, escapedBoldPattern, 1)
      escaped(k) == Includes(Matched(s, ms[k]), <<Backslash, "*">>)
      bold(k) == BoldMarker \o Trim(Group(s, ms[k], 6, 6)) \o BoldMarker
  IN [processed |-> Replace(s, ms,
                      [k \in 1..Len(ms) |->
                         IF escaped(k) THEN bold(k) ELSE Matched(s, ms[k])]),
      fixes |-> st.fixes \o Recorded(
                  [k \in 1..Len(ms) |->
                     IF escaped(k)
                       THEN "Fixed escaped bold markers: \""
                              \o Str(Matched(s, ms[k])) \o "\" -> \""
                              \o Str(bold(k)) \o "\""
                       ELSE ""])]

\* https?:\/\/[^\*\s]+ , the body of both URL patterns
UrlBody ==
  Word(<<"h", "t", "t", "p">>) \o <<Opt(Cls({"s"}))>> \o Word(<<":", "/", "/">>)
    \o <<Plus(Not({"*"} \cup WhiteSpace))>>

\* Fix 1: /\*\*(https?:\/\/[^\*\s]+)\*\*/g replaced by '$1'
boldUrlPattern == << Word(BoldMarker) \o UrlBody \o Word(BoldMarker) >>

Fix1(st) ==
  LET s == st.processed
      ms == FindAll(s, boldUrlPattern, 1)
      out == Replace(s, ms, [k \in 1..Len(ms) |-> Group(s, ms[k], 3, 11)])
  IN [processed |-> out,
      fixes |-> IF out # s
                  THEN Append(st.fixes, "Removed bold formatting from URLs")
                  ELSE st.fixes]

\* Placeholder tokens: prefix, index, "__"
UrlPrefix == <<"_", "_", "U", "R", "L", "_", "P", "L", "A", "C", "E", "H", "O",
               "L", "D", "E", "R", "_">>
CodePrefix == <<"_", "_", "C", "O", "D", "E", "B", "L", "O", "C", "K", "_">>
Token(prefix, n) == prefix \o DigitsOf(n) \o <<"_", "_">>
\* /__URL_PLACEHOLDER_(\d+)__/g and /__CODEBLOCK_(\d+)__/g
TokenPattern(prefix) ==
  << Word(prefix) \o <<Plus(Cls(Digits))>> \o Word(<<"_", "_">>) >>

undefined == <<"u", "n", "d", "e", "f", "i", "n", "e", "d">>

\* text.replace(pattern, match => { table.push(match); return token(i++) }):
\* the masked text and the table of protected spans.
Protect(s, alts, prefix) ==
  LET ms == FindAll(s, alts, 1)
  IN [text |-> Replace(s, ms, [k \in 1..Len(ms) |-> Token(prefix, k - 1)]),
      table |-> [k \in 1..Len(ms) |-> Matched(s, ms[k])]]

\* text.replace(tokenPattern, (match, index) => table[parseInt(index)]): an
\* index the table does not have gives undefined, which replace writes as the
\* text "undefined".
Restore(s, table, prefix) ==
  LET ms == FindAll(s, TokenPattern(prefix), 1)
      index(k) == parseInt(Group(s, ms[k], Len(prefix) + 1, Len(prefix) + 1))
  IN Replace(s, ms, [k \in 1..Len(ms) |->
                       IF index(k) < Len(table) THEN table[index(k) + 1]
                       ELSE undefined])

\* /(https?:\/\/[^\s*]+)/g
urlPattern == << UrlBody >>

\* Fix 2: the three italic patterns
\* /(?<!\*)\* +([^*\n]+?) +\*(?!\*)/g
italicSpaces ==
  << <<NotBehind("*"), Lit("*"), Plus(Cls({" "})), PlusLazy(Not({"*", "\n"})),
       Plus(Cls({" "})), Lit("*"), NotAhead(<<"*">>)>> >>
\* /(?<!\*)\* +([^*\n]+?)\*(?!\*)/g
italicLeading ==
  << <<NotBehind("*"), Lit("*"), Plus(Cls({" "})), PlusLazy(Not({"*", "\n"})),
       Lit("*"), NotAhead(<<"*">>)>> >>
\* /(?<!\*)\*([^*\n]+?) +\*(?!\*)/g
italicTrailing ==
  << <<NotBehind("*"), Lit("*"), PlusLazy(Not({"*", "\n"})),
       Plus(Cls({" "})), Lit("*"), NotAhead(<<"*">>)>> >>

\* One replace whose callback records `what` with the content (item g) and
\* returns the trimmed content between `marker`s.
TrimInside(st, alts, g, marker, what) ==
  LET s == st.processed
      ms == FindAll(s, alts, 1)
  IN [processed |-> Replace(s, ms,
                      [k \in 1..Len(ms) |->
                         marker \o Trim(Group(s, ms[k], g, g)) \o marker]),
      fixes |-> st.fixes \o
                  [k \in 1..Len(ms) |->
                     what \o ": \"" \o Str(Group(s, ms[k], g, g)) \o "\""]]

Fix2(st) ==
  TrimInside(
    TrimInside(
      TrimInside(st, italicSpaces, 4, <<"*">>,
                 "Fixed italic formatting with spaces"),
      italicLeading, 4, <<"*">>, "Fixed italic formatting with leading space"),
    italicTrailing, 3, <<"*">>, "Fixed italic formatting with trailing space")

\* Fix 3: /~~ +([^~\n]+?) +~~/g
strikePattern ==
  << Word(<<"~", "~">>) \o <<Plus(Cls({" "})), PlusLazy(Not({"~", "\n"})),
                             Plus(Cls({" "}))>> \o Word(<<"~", "~">>) >>

Fix3(st) ==
  TrimInside(st, strikePattern, 4, <<"~", "~">>,
             "Fixed strikethrough formatting with spaces")

\* Fix 4: /`\s+([^`]+?)\s+`/g
inlineCodePattern ==
  << <<Lit(Backtick), Plus(Space), PlusLazy(Not({Backtick})), Plus(Space), Lit(Backtick)>> >>

Fix4(st) ==
  LET s == st.processed
      ms == FindAll(s, inlineCodePattern, 1)
      content(k) == Trim(Group(s, ms[k], 3, 3))
      keep(k) == Includes(content(k), <<" ">>)
  IN [processed |-> Replace(s, ms,
                      [k \in 1..Len(ms) |->
                         IF keep(k) THEN Matched(s, ms[k])
                         ELSE <<Backtick>> \o content(k) \o <<Backtick>>]),
      fixes |-> st.fixes \o Recorded(
                  [k \in 1..Len(ms) |->
                     IF keep(k) THEN ""
                     ELSE "Fixed inline code formatting with extra spaces: \""
                            \o Str(Matched(s, ms[k])) \o "\""])]

\* Fix 5: the loop over the lines, from line i (0-based) on.
RECURSIVE HeadingLoop(_, _, _)
HeadingLoop(st, ls, i) ==
  IF i >= Len(ls) THEN st
  ELSE HeadingLoop(ProcessLine(st, i, ls[i + 1]), ls, i + 1)

Fix5(st) ==
  LET final == HeadingLoop([fixedLines |-> <<>>, lastHeaderLevel |-> 0,
                          fixes |-> st.fixes], Split(st.processed, "\n"), 0)
  IN [processed |-> Join(final.fixedLines, "\n"), fixes |-> final.fixes]

\* The blank-line pattern asking for five newlines: /\n{5,}/g
blankLinesFromFive == << <<Rep(Cls({"\n"}), 5, -1, FALSE)>> >>

\* Fix 6: /\n{4,}/g replaced by '\n\n\n'
blankLinesPattern == << <<Rep(Cls({"\n"}), 4, -1, FALSE)>> >>

Fix6(st) ==
  LET s == st.processed
      ms == FindAll(s, blankLinesPattern, 1)
      out == Replace(s, ms, [k \in 1..Len(ms) |-> <<"\n", "\n", "\n">>])
  IN [processed |-> out,
      fixes |-> IF Len(Split(out, "\n")) # Len(Split(s, "\n"))
                  THEN Append(st.fixes,
                    "Removed excessive blank lines (reduced to max 2 consecutive)")
                  ELSE st.fixes]

\* Fix 7: /```[\s\S]*?```|`[^`]+`/g
codeBlockPattern ==
  << Word(Fence) \o <<StarLazy(AnyChar)>> \o Word(Fence),
     <<Lit(Backtick), Plus(Not({Backtick})), Lit(Backtick)>> >>

\* Fix 8: /([^\n])\n```/g and /```\n([^\n])/g
beforeFencePattern == << <<One(Not({"\n"})), Lit("\n")>> \o Word(Fence) >>
afterFencePattern == << Word(Fence) \o <<Lit("\n"), One(Not({"\n"}))>> >>

\* fixes with `fix` pushed unless fixes.includes(fix)
PushOnce(list, fix) ==
  IF \E k \in 1..Len(list) : list[k] = fix THEN list ELSE Append(list, fix)

Fix8(st) ==
  LET s == st.processed
      ms == FindAll(s, beforeFencePattern, 1)
      s1 == Replace(s, ms, [k \in 1..Len(ms) |->
                              Group(s, ms[k], 1, 1) \o <<"\n", "\n">> \o Fence])
      f1 == IF ms # <<>>
              THEN PushOnce(st.fixes, "Added blank line before code block")
              ELSE st.fixes
      ms2 == FindAll(s1, afterFencePattern, 1)
      s2 == Replace(s1, ms2, [k \in 1..Len(ms2) |->
                                Fence \o <<"\n", "\n">> \o Group(s1, ms2[k], 5, 5)])
  IN [processed |-> s2,
      fixes |-> IF ms2 # <<>>
                  THEN PushOnce(f1, "Added blank line after code block")
                  ELSE f1]

\* Fix 9: /([a-z])([A-Z])/g replaced by '$1 $2'
camelCasePattern == << <<One(Cls(Lower)), One(Cls(Upper))>> >>

CamelCase(s) ==
  LET ms == FindAll(s, camelCasePattern, 1)
  IN Replace(s, ms, [k \in 1..Len(ms) |->
                       Group(s, ms[k], 1, 1) \o <<" ">> \o Group(s, ms[k], 2, 2)])

tested == <<"t", "e", "s", "t", "e", "d">>
verified == <<"v", "e", "r", "i", "f", "i", "e", "d">>
official == <<"o", "f", "f", "i", "c", "i", "a", "l">>
are == <<"a", "r", "e">>
Most == <<"M", "o", "s", "t">>
reports == <<"r", "e", "p", "o", "r", "t", "s">>

\* commonConcatenations: the pattern (an alternation (a|b) is one alternative
\* per word), the first and last item of the group and of the second group
\* (0: none), the text put before, between and after the groups, and
\* pattern.toString().
commonConcatenations ==
  << \* /\bare(tested|verified|official)/gi -> 'are $1'
     [alts |-> [a \in 1..3 |-> <<WordBoundary>> \o WordI(are)
                                 \o WordI(<<tested, verified, official>>[a])],
      g1 |-> [a \in 1..3 |-> <<5, 4 + Len(<<tested, verified, official>>[a])>>],
      g2 |-> [a \in 1..3 |-> <<0, 0>>],
      before |-> <<"a", "r", "e", " ">>, between |-> <<>>, after |-> <<>>,
      name |-> "/\\bare(tested|verified|official)/gi"],
     \* /\b(tested|verified)and\b/gi -> '$1 and'
     [alts |-> [a \in 1..2 |-> <<WordBoundary>> \o WordI(<<tested, verified>>[a])
                                 \o WordI(<<"a", "n", "d">>) \o <<WordBoundary>>],
      g1 |-> [a \in 1..2 |-> <<2, 1 + Len(<<tested, verified>>[a])>>],
      g2 |-> [a \in 1..2 |-> <<0, 0>>],
      before |-> <<>>, between |-> <<>>, after |-> <<" ", "a", "n", "d">>,
      name |-> "/\\b(tested|verified)and\\b/gi"],
     \* /\bMost\s*are(official|tested)/gi -> 'Most are $1'
     [alts |-> [a \in 1..2 |-> <<WordBoundary>> \o WordI(Most) \o <<Star(Space)>>
                                 \o WordI(are) \o WordI(<<official, tested>>[a])],
      g1 |-> [a \in 1..2 |-> <<10, 9 + Len(<<official, tested>>[a])>>],
      g2 |-> [a \in 1..2 |-> <<0, 0>>],
      before |-> Most \o <<" ">> \o are \o <<" ">>, between |-> <<>>,
      after |-> <<>>,
      name |-> "/\\bMost\\s*are(official|tested)/gi"],
     \* /\breports\s*(Internal|External)/gi -> 'reports\n\n$1'
     [alts |-> [a \in 1..2 |-> <<WordBoundary>> \o WordI(reports) \o <<Star(Space)>>
                                 \o WordI(<< <<"I", "n">>, <<"E", "x">> >>[a])
                                 \o WordI(<<"t", "e", "r", "n", "a", "l">>)],
      g1 |-> [a \in 1..2 |-> <<10, 17>>],
      g2 |-> [a \in 1..2 |-> <<0, 0>>],
      before |-> reports \o <<"\n", "\n">>, between |-> <<>>, after |-> <<>>,
      name |-> "/\\breports\\s*(Internal|External)/gi"],
     \* /systems\.\s*---/g -> 'systems.\n\n---'
     [alts |-> << Word(<<"s", "y", "s", "t", "e", "m", "s", ".">>) \o <<Star(Space)>>
                    \o Word(<<"-", "-", "-">>) >>,
      g1 |-> << <<0, 0>> >>, g2 |-> << <<0, 0>> >>,
      before |-> <<"s", "y", "s", "t", "e", "m", "s", ".", "\n", "\n",
                   "-", "-", "-">>,
      between |-> <<>>, after |-> <<>>,
      name |-> "/systems\\.\\s*---/g"],
     \* /\b([a-z]{3,})([A-Z][a-z]{2,})/g -> '$1 $2'
     [alts |-> << <<WordBoundary, Rep(Cls(Lower), 3, -1, FALSE), One(Cls(Upper)),
                    Rep(Cls(Lower), 2, -1, FALSE)>> >>,
      g1 |-> << <<2, 2>> >>, g2 |-> << <<3, 4>> >>,
      before |-> <<>>, between |-> <<" ">>, after |-> <<>>,
      name |-> "/\\b([a-z]{3,})([A-Z][a-z]{2,})/g"] >>

GroupOrNone(s, m, g) == IF g[1] = 0 THEN <<>> ELSE Group(s, m, g[1], g[2])

\* One entry of the forEach over commonConcatenations.
Concatenation(st, c) ==
  LET s == st.processed
      ms == FindAll(s, c.alts, 1)
      out == Replace(s, ms,
               [k \in 1..Len(ms) |->
                  c.before \o GroupOrNone(s, ms[k], c.g1[ms[k].alt]) \o c.between
                    \o GroupOrNone(s, ms[k], c.g2[ms[k].alt]) \o c.after])
  IN [processed |-> out,
      fixes |-> IF out # s
                  THEN Append(st.fixes, "Fixed concatenated words: " \o c.name)
                  ELSE st.fixes]

RECURSIVE Concatenations(_, _)
Concatenations(st, k) ==
  IF k > Len(commonConcatenations) THEN st
  ELSE Concatenations(Concatenation(st, commonConcatenations[k]), k + 1)

Fix9(st) ==
  Concatenations([processed |-> CamelCase(st.processed), fixes |-> st.fixes], 1)

\* Fix 10: /^([*+-])\s{2,}/gm replaced by '$1 '
listMarkerPattern ==
  << <<Bol, One(Cls({"*", "+", "-"})), Rep(Space, 2, -1, FALSE)>> >>

Fix10(st) ==
  LET s == st.processed
      ms == FindAll(s, listMarkerPattern, 1)
  IN [processed |-> Replace(s, ms, [k \in 1..Len(ms) |->
                                      Group(s, ms[k], 2, 2) \o <<" ">>]),
      fixes |-> st.fixes]

\* Fix 11.  The emoji of the alert patterns, one element each.
Emoji == {"U+26A0 U+FE0F", "U+26A1", "U+2705", "U+274C", "U+1F512", "U+1F4A1",
          "U+1F4CA", "U+1F3AF"}

\* [A-Z]+(?:\s+[A-Z]+)* before a colon: one capital, or a capital, capitals
\* and white space, and a capital.
AlertLabels ==
  << <<One(Cls(Upper))>>,
     <<One(Cls(Upper)), Star(Cls(Upper \cup WhiteSpace)), One(Cls(Upper))>> >>

\* /^(\s*[-*+]\s+)\*\*(emoji)\s*([A-Z]+(?:\s+[A-Z]+)*):\*\*\s+(.+)$/gm
closedAlertPattern ==
  [a \in 1..2 |->
     <<Bol, Star(Space), One(Cls({"-", "*", "+"})), Plus(Space), Lit("*"),
       Lit("*"), One(Cls(Emoji)), Star(Space)>> \o AlertLabels[a]
       \o <<Lit(":"), Lit("*"), Lit("*"), Plus(Space), Plus(Dot), Eol>>]

\* /^(\s*[-*+]\s+)\*\*(emoji)\s*([A-Z]+(?:\s+[A-Z]+)*):(?!\*)\s+(.+)$/gm
unclosedAlertPattern ==
  [a \in 1..2 |->
     <<Bol, Star(Space), One(Cls({"-", "*", "+"})), Plus(Space), Lit("*"),
       Lit("*"), One(Cls(Emoji)), Star(Space)>> \o AlertLabels[a]
       \o <<Lit(":"), NotAhead(<<"*">>), Plus(Space), Plus(Dot), Eol>>]

\* Either alert replace, with '$1**$2 $3:**\n  $4'; n is the number of items
\* between the colon and the text.
AlertLines(s, alts, n) ==
  LET ms == FindAll(s, alts, 1)
      label(k) == IF ms[k].alt = 1 THEN 9 ELSE 11
  IN Replace(s, ms,
       [k \in 1..Len(ms) |->
          Group(s, ms[k], 2, 4) \o BoldMarker \o Group(s, ms[k], 7, 7) \o <<" ">>
            \o Group(s, ms[k], 9, label(k)) \o <<":">> \o BoldMarker
            \o <<"\n", " ", " ">>
            \o Group(s, ms[k], label(k) + n + 2, label(k) + n + 2)])

AlertWords ==
  << <<"R", "e", "m", "e", "m", "b", "e", "r">>, <<"N", "o", "t", "e">>,
     <<"I", "m", "p", "o", "r", "t", "a", "n", "t">>,
     <<"W", "a", "r", "n", "i", "n", "g">>, <<"C", "a", "u", "t", "i", "o", "n">> >>

\* /^(?!\*\*)(Remember|Note|Important|Warning|Caution):\s+/gm -> '**$1:** '
alertWordPattern ==
  [a \in 1..Len(AlertWords) |->
     <<Bol, NotAhead(BoldMarker)>> \o Word(AlertWords[a]) \o <<Lit(":"), Plus(Space)>>]

Fix11(st) ==
  LET s1 == AlertLines(st.processed, closedAlertPattern, 3)
      s2 == AlertLines(s1, unclosedAlertPattern, 2)
      ms == FindAll(s2, alertWordPattern, 1)
  IN [processed |-> Replace(s2, ms,
                      [k \in 1..Len(ms) |->
                         BoldMarker \o AlertWords[ms[k].alt] \o <<":">>
                           \o BoldMarker \o <<" ">>]),
      fixes |-> st.fixes]

\* The warnings (each message without its leading sign).
UnbalancedBold ==
  "Unbalanced bold markers (**) detected. Please check your markdown."
UnbalancedItalic ==
  "Unbalanced italic markers (*) detected. Please check your markdown."
UnbalancedCode ==
  "Unbalanced inline code markers (" \o Backtick
    \o ") detected. Please check your markdown."
EscapedMarkers ==
  "Escaped formatting markers detected. If you want actual formatting, remove the backslashes."

\* The lone-asterisk pattern without its lookbehind: /\*(?!\*)/g
loneAsteriskNoLookbehind == << <<Lit("*"), NotAhead(<<"*">>)>> >>

\* /(?<!\*)\*(?!\*)/g
loneAsteriskPattern == << <<NotBehind("*"), Lit("*"), NotAhead(<<"*">>)>> >>

\* Warnings taking every asterisk for a bold opener.
WarningsCountingAsterisks(text) ==
  LET boldOpeners == Len(FindAll(text, << <<Lit("*")>> >>, 1))
      italicOpeners == Len(FindAll(text, loneAsteriskPattern, 1))
      codeOpeners == Len(FindAll(text, << <<Lit(Backtick)>> >>, 1))
  IN (IF boldOpeners % 2 # 0 THEN <<UnbalancedBold>> ELSE <<>>)
       \o (IF italicOpeners % 2 # 0 THEN <<UnbalancedItalic>> ELSE <<>>)
       \o (IF codeOpeners % 2 # 0 THEN <<UnbalancedCode>> ELSE <<>>)
       \o (IF Includes(text, <<Backslash, "*", Backslash, "*">>)
              \/ Includes(text, <<Backslash, "*">>)
             THEN <<EscapedMarkers>> ELSE <<>>)

Warnings(text) ==
  LET boldOpeners == Len(FindAll(text, << Word(BoldMarker) >>, 1))
      italicOpeners == Len(FindAll(text, loneAsteriskPattern, 1))
      codeOpeners == Len(FindAll(text, << <<Lit(Backtick)>> >>, 1))
  IN (IF boldOpeners % 2 # 0 THEN <<UnbalancedBold>> ELSE <<>>)
       \o (IF italicOpeners % 2 # 0 THEN <<UnbalancedItalic>> ELSE <<>>)
       \o (IF codeOpeners % 2 # 0 THEN <<UnbalancedCode>> ELSE <<>>)
       \o (IF Includes(text, <<Backslash, "*", Backslash, "*">>)
              \/ Includes(text, <<Backslash, "*">>)
             THEN <<EscapedMarkers>> ELSE <<>>)

\* The URL protection of Fix 1 and the code-block protection of Fix 7, each
\* followed at once by its restoration.
UrlRoundTrip(st) ==
  LET p == Protect(st.processed, urlPattern, UrlPrefix)
  IN [processed |-> Restore(p.text, p.table, UrlPrefix), fixes |-> st.fixes]

CodeRoundTrip(st) ==
  LET p == Protect(st.processed, codeBlockPattern, CodePrefix)
  IN [processed |-> Restore(p.text, p.table, CodePrefix), fixes |-> st.fixes]

\* The passes of preprocessMarkdown in program order, numbered from 1.
PipelinePass(st, k) ==
  CASE k = 1 -> Fix0(st)
    [] k = 2 -> Fix1(st)
    [] k = 3 -> UrlRoundTrip(st)
    [] k = 4 -> Fix2(st)
    [] k = 5 -> Fix3(st)
    [] k = 6 -> Fix4(st)
    [] k = 7 -> Fix5(st)
    [] k = 8 -> Fix6(st)
    [] k = 9 -> CodeRoundTrip(st)
    [] k = 10 -> Fix8(st)
    [] k = 11 -> Fix9(st)
    [] k = 12 -> Fix10(st)
    [] k = 13 -> Fix11(st)

\* The statements of preprocessMarkdown one after the other.  No pass changes
\* an empty text; testing for it makes TLC evaluate each pass before the next
\* one starts instead of nesting thirteen pending evaluations.
RECURSIVE Pipeline(_, _)
Pipeline(st, k) ==
  IF k > 13 \/ st.processed = <<>> THEN st
  ELSE Pipeline(PipelinePass(st, k), k + 1)

preprocessMarkdown(text) ==
  LET st == Pipeline([processed |-> text, fixes |-> <<>>], 1)
  IN [markdown |-> st.processed, fixes |-> st.fixes,
      warnings |-> Warnings(st.processed)]

----------------------------------------------------------------------------
(* preprocessMarkdown as a state machine: one action per pass; step names   *)
(* the pass that runs next.                                                 *)

Current == [processed |-> processed, fixes |-> fixes]

Pass(at, next, st) ==
  /\ step = at
  /\ step' = next
  /\ processed' = st.processed
  /\ fixes' = st.fixes
  /\ UNCHANGED <<markdown, warnings, protectedUrls, codeBlocks, lines, idx,
                 fixedLines, lastHeaderLevel, convVars>>

EscapedBoldPass == Pass("fix0", "fix1", Fix0(Current))
BoldUrlPass == Pass("fix1", "protectUrls", Fix1(Current))

ProtectUrls ==
  /\ step = "protectUrls"
  /\ step' = "restoreUrls"
  /\ LET p == Protect(processed, urlPattern, UrlPrefix)
     IN processed' = p.text /\ protectedUrls' = p.table
  /\ UNCHANGED <<markdown, warnings, codeBlocks, scanVars, convVars>>

RestoreUrls ==
  /\ step = "restoreUrls"
  /\ step' = "fix2"
  /\ processed' = Restore(processed, protectedUrls, UrlPrefix)
  /\ UNCHANGED <<markdown, warnings, protectedUrls, codeBlocks, scanVars,
                 convVars>>

ItalicPass == Pass("fix2", "fix3", Fix2(Current))
StrikethroughPass == Pass("fix3", "fix4", Fix3(Current))
InlineCodePass == Pass("fix4", "fix5", Fix4(Current))

HeadingPass ==
  /\ step = "fix5"
  /\ step' = "fix6"
  /\ lines' = Split(processed, "\n")
  /\ idx' = Len(lines')
  /\ LET final == HeadingLoop([fixedLines |-> <<>>, lastHeaderLevel |-> 0,
                               fixes |-> fixes], lines', 0)
     IN /\ fixedLines' = final.fixedLines
        /\ lastHeaderLevel' = final.lastHeaderLevel
        /\ fixes' = final.fixes
        /\ processed' = Join(final.fixedLines, "\n")
  /\ UNCHANGED <<markdown, warnings, protectedUrls, codeBlocks, convVars>>

BlankLinePass == Pass("fix6", "protectCode", Fix6(Current))

ProtectCodeBlocks ==
  /\ step = "protectCode"
  /\ step' = "restoreCode"
  /\ LET p == Protect(processed, codeBlockPattern, CodePrefix)
     IN processed' = p.text /\ codeBlocks' = p.table
  /\ UNCHANGED <<markdown, warnings, protectedUrls, scanVars, convVars>>

\* The replace with literalBoldPattern between the two returns every match as
\* it is.
RestoreCodeBlocks ==
  /\ step = "restoreCode"
  /\ step' = "fix8"
  /\ processed' = Restore(processed, codeBlocks, CodePrefix)
  /\ UNCHANGED <<markdown, warnings, protectedUrls, codeBlocks, scanVars,
                 convVars>>

CodeFencePass == Pass("fix8", "fix9", Fix8(Current))
ConcatenationPass == Pass("fix9", "fix10", Fix9(Current))
ListMarkerPass == Pass("fix10", "fix11", Fix10(Current))
AlertPass == Pass("fix11", "warnings", Fix11(Current))

BalanceCheck ==
  /\ step = "warnings"
  /\ step' = "return"
  /\ warnings' = Warnings(processed)
  /\ UNCHANGED <<markdown, processed, protectedUrls, codeBlocks, scanVars,
                 convVars>>

\* Inputs: every text of up to MaxFragments fragments, and the sample texts.
Fragments ==
  {<<"*">>, <<" ">>, <<"a">>, <<"\n">>, <<Backtick>>, <<Backslash>>,
   <<"h", "t", "t", "p", ":", "/", "/", "a">>}

RECURSIVE Texts(_)
Texts(n) ==
  IF n = 0 THEN {<<>>}
  ELSE LET shorter == Texts(n - 1)
       IN shorter \cup {t \o f : t \in shorter, f \in Fragments}

NormInputs ==
  Texts(MaxFragments) \cup PassSamples
    \cup {Scenario1, Scenario2, Scenario3, CodeSpanSample, UrlSample,
          FenceSample, NestedBoldUrl, UrlPrefixSample, CodePrefixSample,
          ListItalicSample, ProseSample, TwoBlankLinesHeading,
          RepeatedItalicSample, BackslashInBold, BlankRunBeforeFence,
          CodeSpansApart}

InitNorm ==
  /\ pc = [r \in Requests |-> "idle"]
  /\ md = [r \in Requests |-> NoMarkdown]
  /\ outputPath = [r \in Requests |-> ""]
  /\ options = [r \in Requests |-> NoOptions]
  /\ parsed = [r \in Requests |-> NoMarkdown]
  /\ fullHtml = [r \in Requests |-> <<>>]
  /\ timeout = [r \in Requests |-> 0]
  /\ browser = [r \in Requests |-> NoBrowser]
  /\ completion = [r \in Requests |-> NoResult]
  /\ promise = [r \in Requests |-> Pending]
  /\ response = [r \in Requests |-> NoResponse]
  /\ events = [r \in Requests |-> <<>>]
  /\ fs = <<>>
  /\ sessions = <<>>
  /\ lines = <<>>
  /\ idx = 0
  /\ fixedLines = <<>>
  /\ lastHeaderLevel = 0
  /\ fixes = <<>>
  /\ markdown \in NormInputs
  /\ processed = markdown
  /\ warnings = <<>>
  /\ step = "fix0"
  /\ protectedUrls = <<>>
  /\ codeBlocks = <<>>

NextNorm ==
  \/ EscapedBoldPass
  \/ BoldUrlPass
  \/ ProtectUrls
  \/ RestoreUrls
  \/ ItalicPass
  \/ StrikethroughPass
  \/ InlineCodePass
  \/ HeadingPass
  \/ BlankLinePass
  \/ ProtectCodeBlocks
  \/ RestoreCodeBlocks
  \/ CodeFencePass
  \/ ConcatenationPass
  \/ ListMarkerPass
  \/ AlertPass
  \/ BalanceCheck

SpecNorm == InitNorm /\ [][NextNorm]_vars

----------------------------------------------------------------------------
(* Properties *)

Has(r, ev) == \E k \in 1..Len(events[r]) : events[r][k] = ev
Ended(r) == pc[r] \in {"settled", "done"}
SessionsOf(r) == {s \in 1..Len(sessions) : sessions[s].owner = r}

\* C1: once a conversion has launched a rendering session, every way the
\* conversion ends (success, content-load timeout, export failure, any other
\* exception after the launch) has closed that session: no ended conversion
\* owns a session that is still open.
C1_GuaranteedTeardown ==
  \A r \in Requests :
    Ended(r) => /\ \A s \in SessionsOf(r) : sessions[s].state = "closed"
                /\ Has(r, "launched") => /\ browser[r] \in SessionsOf(r)
                                         /\ r \in sessions[browser[r]].closers

\* A conversion that failed after its launch (content-load timeout) and one
\* that succeeded have both ended with their sessions closed.
C1_Witness ==
  \E r, q \in Requests :
    /\ pc[r] = "done" /\ Has(r, "loadTimeout")
    /\ sessions[browser[r]].state = "closed"
    /\ pc[q] = "done" /\ Has(q, "read")
    /\ sessions[browser[q]].state = "closed"

RECURSIVE EmittedLevels(_)
EmittedLevels(out) ==
  IF out = <<>> THEN <<>>
  ELSE LET n == HeaderLevel(Head(out))
       IN (IF n > 0 THEN <<n>> ELSE <<>>) \o EmittedLevels(Tail(out))

\* C3: in the output of the heading scan no heading has a level greater than
\* the level of the heading emitted before it plus one; the first heading is
\* unconstrained.
C3_HeadingClamp ==
  LET lv == EmittedLevels(fixedLines)
  IN \A k \in 2..Len(lv) : lv[k] <= lv[k - 1] + 1

\* The scan of "# a", "#### a", "###### a" has ended: the second heading was
\* demoted to level 2 and the third to level 3.
C3_Witness ==
  /\ idx = Len(lines)
  /\ lines = <<Heading(1), Heading(4), Heading(6)>>
  /\ EmittedLevels(fixedLines) = <<1, 2, 3>>


\* C2: under any interleaving of concurrent requests, the export of a request
\* never writes at a path where an artifact already exists: no artifact,
\* written by another conversion or present beforehand, is ever replaced.
C2_NeverOverwrites ==
  [][\A p \in DOMAIN fs : fs'[p] = fs[p]]_vars

\* C4: the promise returned by convertMarkdownToPdf never rejects, whichever
\* step fails (the close of the session included): it resolves to a result.
C4_NeverRejects ==
  \A r \in Requests :
    /\ promise[r].state # "rejected"
    /\ Ended(r) => promise[r].state = "resolved" /\ promise[r].value # NoResult

ValidationMessages ==
  {"Unknown tool", "Missing or invalid 'markdown' parameter",
   "Invalid paper format", "Invalid paper orientation",
   "Invalid watermark scope", "Invalid code theme"}

MustReject(m) ==
  \/ m.kind # "string" \/ m.size = 0
  \/ m.blank
  \/ m.size > 10 * 1024 * 1024

Failed(r) ==
  \/ response[r].kind = "thrown"
  \/ promise[r].state = "resolved" /\ ~promise[r].value.success

\* C6: a conversion rejected by validation (empty or whitespace-only markdown,
\* more than 10 MiB, a malformed or unsupported request field) is a failure
\* and launches no rendering session, then or later; content of exactly
\* 10 MiB passes the size check.
C6_ValidationGate ==
  \A r \in Requests :
    /\ pc[r] # "idle" /\ (MustReject(md[r]) \/ response[r].kind = "thrown") =>
         /\ Failed(r)
         /\ SessionsOf(r) = {} /\ browser[r] = NoBrowser
         /\ ~Has(r, "launch")
    /\ pc[r] # "idle" /\ response[r].kind # "thrown" /\ ~MustReject(md[r]) =>
         Has(r, "parse") \/ Has(r, "mkdirFailed")

\* An 11 MiB request has been answered with the size failure and owns no
\* session, while a request of exactly 10 MiB has launched its session.
C6_Witness ==
  \E r, q \in Requests :
    /\ pc[r] = "done" /\ md[r].size = 11 * 1024 * 1024
    /\ promise[r].state = "resolved"
    /\ promise[r].value.error = "Markdown content exceeds 10MB limit"
    /\ SessionsOf(r) = {}
    /\ md[q].size = 10 * 1024 * 1024 /\ Has(q, "launched")

\* C7: when the diagram wait times out the conversion still proceeds to
\* export, and if the export succeeds it returns success=true with
\* hasMermaidDiagrams=true.
C7_SoftDiagramTimeout ==
  \A r \in Requests :
    Has(r, "mermaidTimeout") =>
      /\ Has(r, "pdf")
      /\ Ended(r) /\ Has(r, "exported") =>
           /\ promise[r].state = "resolved"
           /\ promise[r].value.success
           /\ promise[r].value.hasMermaidDiagrams

\* C8: when the content load does not settle within the timeout, the
\* conversion ends with success=false, an error message and processingTimeMs,
\* no export is attempted and the session is closed.
C8_HardRenderTimeout ==
  \A r \in Requests :
    Has(r, "loadTimeout") =>
      /\ ~Has(r, "pdf")
      /\ Ended(r) =>
           /\ promise[r].state = "resolved"
           /\ ~promise[r].value.success
           /\ "error" \in DOMAIN promise[r].value
           /\ "processingTimeMs" \in DOMAIN promise[r].value
           /\ sessions[browser[r]].state = "closed"

\* C9: every failure result of convertMarkdownToPdf, validation failures
\* included, carries an error string and processingTimeMs.
C9_FailureReportsElapsedTime ==
  \A r \in Requests :
    promise[r].state = "resolved" /\ ~promise[r].value.success =>
      /\ "error" \in DOMAIN promise[r].value
      /\ "processingTimeMs" \in DOMAIN promise[r].value

RECURSIVE Count(_, _)
Count(q, x) ==
  IF q = <<>> THEN 0 ELSE (IF Head(q) = x THEN 1 ELSE 0) + Count(Tail(q), x)

\* C10: under any interleaving each conversion launches at most one session
\* (one attempt, no retry), makes its page calls and its export on the session
\* it launched, and closes that session only; no session is used or closed by
\* a conversion other than its creator.
C10_OwnSessionOnly ==
  /\ \A r \in Requests :
       /\ Cardinality(SessionsOf(r)) <= 1
       /\ Count(events[r], "launch") <= 1
       /\ browser[r] # NoBrowser => sessions[browser[r]].owner = r
  /\ \A s \in 1..Len(sessions) :
       /\ sessions[s].users \subseteq {sessions[s].owner}
       /\ sessions[s].closers \subseteq {sessions[s].owner}

\* Two conversions ran at the same time, each exported through and closed its
\* own session.
C10_Witness ==
  /\ Len(sessions) = 2
  /\ \A s \in 1..2 :
       /\ sessions[s].users = {sessions[s].owner}
       /\ sessions[s].closers = {sessions[s].owner}
       /\ Has(sessions[s].owner, "exported")
  /\ sessions[1].owner # sessions[2].owner

\* C11: the skipPreprocessing flag governs the pipeline.  Without the flag
\* the text handed to marked.parse is what preprocessMarkdown makes of the
\* request's markdown, and the success payload lists the fixes and warnings of
\* that normalization; with the flag the markdown is converted unchanged and
\* nothing is listed.
C11_SkipFlagGovernsPipeline ==
  \A r \in Requests :
    (Has(r, "parse") /\ "text" \in DOMAIN md[r]) =>
      LET normalized == preprocessMarkdown(md[r].text)
          expected ==
            IF options[r].skipPreprocessing
              THEN [markdown |-> md[r].text, fixes |-> <<>>, warnings |-> <<>>]
              ELSE normalized
      IN /\ parsed[r].text = expected.markdown
         /\ (response[r].kind = "payload" /\ ~response[r].isError) =>
              /\ response[r].fixes = expected.fixes
              /\ response[r].warnings = expected.warnings

\* The spans of a text that the program's own protection would set aside.
CodeSpansOf(text) == Protect(text, codeBlockPattern, CodePrefix).table
UrlsOf(text) == Protect(text, urlPattern, UrlPrefix).table

\* C12: no pass rewrites inside a fenced code block, an inline code span or a
\* raw URL: when preprocessMarkdown returns, every code span and every URL
\* of its input stands character for character in its output.
C12_CodeAndUrlsUntouched ==
  step = "return" =>
    /\ \A k \in 1..Len(CodeSpansOf(markdown)) :
         Includes(processed, CodeSpansOf(markdown)[k])
    /\ \A k \in 1..Len(UrlsOf(markdown)) :
         Includes(processed, UrlsOf(markdown)[k])

\* A text holding no substring of the shape of a placeholder token.
TokenFree(text) ==
  /\ FindAll(text, TokenPattern(UrlPrefix), 1) = <<>>
  /\ FindAll(text, TokenPattern(CodePrefix), 1) = <<>>

\* C13: placeholder round trip.  When a protection step runs on a text with
\* no token-shaped substring, restoring the protected text with the table the
\* step filled gives the text back exactly, and no token is left in it.
C13_PlaceholderRoundTrip ==
  [][ /\ (step = "protectUrls" /\ TokenFree(processed)) =>
           /\ Restore(processed', protectedUrls', UrlPrefix) = processed
           /\ TokenFree(Restore(processed', protectedUrls', UrlPrefix))
      /\ (step = "protectCode" /\ TokenFree(processed)) =>
           /\ Restore(processed', codeBlocks', CodePrefix) = processed
           /\ TokenFree(Restore(processed', codeBlocks', CodePrefix)) ]_vars

\* The Fix Records of the word-concatenation heuristics (Fix 9).
ConcatenationFixes ==
  {"Fixed concatenated words: " \o commonConcatenations[k].name :
     k \in 1..Len(commonConcatenations)}

\* C14: idempotence under a second pass.  Running preprocessMarkdown on the
\* text a first run returned records no fix, those of the word-concatenation
\* heuristics apart.
C14_SecondPassRecordsNoFix ==
  step = "return" =>
    LET second == preprocessMarkdown(processed).fixes
    IN \A k \in 1..Len(second) : second[k] \in ConcatenationFixes

\* The wordings by which preprocessMarkdown's Fix Records mention spacing,
\* and the records with these wordings about a content.
SpacingWordings ==
  {"Fixed italic formatting with spaces",
   "Fixed italic formatting with leading space",
   "Fixed italic formatting with trailing space",
   "Fixed strikethrough formatting with spaces",
   "Fixed inline code formatting with extra spaces"}

MentionsSpacing(fix, contents) ==
  \E what \in SpacingWordings, c \in contents :
    fix = what \o ": \"" \o Str(c) \o "\""

Hello == <<"h", "e", "l", "l", "o">>

\* C15 (scenario 1): preprocessMarkdown("**  hello  **") returns the text
\* "**hello**" and exactly one Fix Record, which mentions spacing.
C15_Scenario1BoldSpacing ==
  (step = "return" /\ markdown = Scenario1) =>
    /\ processed = BoldMarker \o Hello \o BoldMarker
    /\ Len(fixes) = 1
    /\ MentionsSpacing(fixes[1], {Hello, <<" ", " ">> \o Hello \o <<" ", " ">>,
                                  Scenario1})

\* C16, as stated (scenario 2): preprocessMarkdown("# A\n### B") returns
\* "# A", a blank line, "## B" and exactly one Fix Record, the one describing
\* the demotion from level 3 to level 2.
C16_Scenario2OneFix ==
  (step = "return" /\ markdown = Scenario2) =>
    /\ processed = <<"#", " ", "A", "\n", "\n", "#", "#", " ", "B">>
    /\ fixes = <<"Fixed heading hierarchy: h3 after h1 -> h2">>

\* C16, amended: the call returns "# A", a blank line, "## B" and exactly two
\* Fix Records, in this order: the blank line added before the header, and
\* the demotion from level 3 to level 2 (the source writes the arrow of the
\* second record as U+2192).
C16_Scenario2TwoFixes ==
  (step = "return" /\ markdown = Scenario2) =>
    /\ processed = <<"#", " ", "A", "\n", "\n", "#", "#", " ", "B">>
    /\ fixes = <<"Added blank line before header",
                 "Fixed heading hierarchy: h3 after h1 -> h2">>
    /\ warnings = <<>>

\* preprocessMarkdown returned from scenario 2, the second heading demoted.
C16_Witness ==
  /\ step = "return"
  /\ markdown = Scenario2
  /\ Len(fixes) = 2
  /\ HeaderLevel(fixedLines[Len(fixedLines)]) = 2

\* The number of non-overlapping "**" sequences of a text, read from the
\* left.
RECURSIVE BoldSequences(_)
BoldSequences(text) ==
  IF Len(text) < 2 THEN 0
  ELSE IF text[1] = "*" /\ text[2] = "*"
    THEN 1 + BoldSequences(SubSeq(text, 3, Len(text)))
  ELSE BoldSequences(Tail(text))

\* C17: balance warning.  When preprocessMarkdown returns, the warnings hold
\* exactly one unbalanced-bold warning if the returned text has an odd number
\* of non-overlapping "**" sequences, and none if the number is even.
C17_BalanceWarning ==
  step = "return" =>
    Count(warnings, UnbalancedBold) =
      IF BoldSequences(processed) % 2 = 1 THEN 1 ELSE 0

\* A returned text with one "**" sequence among other asterisks, warned
\* about once.
C17_Witness ==
  /\ step = "return"
  /\ BoldSequences(processed) = 1
  /\ Count(processed, "*") = 3
  /\ Count(warnings, UnbalancedBold) = 1

\* C18 (scenario 3): preprocessMarkdown("**foo") records no fix and exactly
\* one warning, the unbalanced-bold warning, and returns the text unchanged.
C18_Scenario3UnmatchedBold ==
  (step = "return" /\ markdown = Scenario3) =>
    /\ fixes = <<>>
    /\ warnings = <<UnbalancedBold>>
    /\ processed = Scenario3

\* preprocessMarkdown returned from scenario 3 with a warning.
C18_Witness ==
  /\ step = "return"
  /\ markdown = Scenario3
  /\ Len(warnings) = 1
  /\ BoldSequences(processed) = 1

\* C19: timeout monotonicity and saturation.  The timeout a conversion
\* computes is 30 s + min(lineCount * 10 ms, 270 s) + 30 s with diagrams,
\* hence between 30 s and 330 s; with the diagram flag held fixed it is no
\* smaller than the timeout of any shorter document and no larger than that
\* of any longer one.
C19_TimeoutMonotoneAndBounded ==
  \A r \in Requests :
    Has(r, "launch") =>
      /\ timeout[r] >= 30000
      /\ timeout[r] <= 330000
      /\ timeout[r] =
           30000
             + (IF md[r].lineCount * 10 < 270000 THEN md[r].lineCount * 10
                ELSE 270000)
             + (IF md[r].mermaid THEN 30000 ELSE 0)
      /\ \A a \in LineCounts :
           LET other == Timeout([lineCount |-> a, mermaid |-> md[r].mermaid])
           IN /\ a < md[r].lineCount => other <= timeout[r]
              /\ a > md[r].lineCount => other >= timeout[r]

\* A conversion of a document with diagrams, of more lines than the cap
\* pays for, computed the largest timeout.
C19_Witness ==
  /\ Has(1, "launch")
  /\ md[1].mermaid
  /\ md[1].lineCount * 10 > 270000
  /\ timeout[1] = 330000

\* The positions of a block in an envelope.
PositionsOf(html, block) == {k \in 1..Len(html) : html[k] = block}

BuiltInStyleBlocks == {"styles", "mermaidStyles", "firstPageWatermarkStyles"}

\* C20: custom user styles, when supplied, stand in the envelope after every
\* built-in style block (base stylesheet, diagram-support stylesheet, scoped
\* first-page watermark styles), whatever the diagram presence and watermark
\* scope; when not supplied, the envelope has no custom style block.
C20_CustomStylesLast ==
  \A r \in Requests :
    Has(r, "launch") =>
      IF options[r].customCss # ""
        THEN /\ PositionsOf(fullHtml[r], "customCss") # {}
             /\ \A b \in BuiltInStyleBlocks :
                  \A i \in PositionsOf(fullHtml[r], b) :
                    \A j \in PositionsOf(fullHtml[r], "customCss") : i < j
        ELSE PositionsOf(fullHtml[r], "customCss") = {}

\* Where a page-object marker that starts at position i of a byte stream
\* ends (the position after it), 0 when none starts there: "/Type", any white
\* space, "/Page" and one more character that is not "s".
StartsWith(b, i, w) ==
  i + Len(w) - 1 <= Len(b) /\ SubSeq(b, i, i + Len(w) - 1) = w

RECURSIVE SkipSpace(_, _)
SkipSpace(b, i) ==
  IF i <= Len(b) /\ b[i] \in WhiteSpace THEN SkipSpace(b, i + 1) ELSE i

MarkerEnd(b, i) ==
  IF ~StartsWith(b, i, TypeKey) THEN 0
  ELSE LET j == SkipSpace(b, i + Len(TypeKey))
       IN IF StartsWith(b, j, PageKey) /\ j + Len(PageKey) <= Len(b)
               /\ b[j + Len(PageKey)] # "s"
            THEN j + Len(PageKey) + 1
            ELSE 0

\* The number of non-overlapping page-object markers, read from the left.
RECURSIVE CountMarkers(_, _)
CountMarkers(b, i) ==
  IF i > Len(b) THEN 0
  ELSE IF MarkerEnd(b, i) > 0 THEN 1 + CountMarkers(b, MarkerEnd(b, i))
  ELSE CountMarkers(b, i + 1)

\* C21: the page count is never zero.  Every success result reports the
\* number of non-overlapping page-object markers of the artifact that was
\* read back when there is at least one, and 1 otherwise: at least 1 always.
C21_PageCountNeverZero ==
  \A r \in Requests :
    (promise[r].state = "resolved" /\ promise[r].value.success) =>
      LET found == CountMarkers(fs[outputPath[r]].bytes, 1)
      IN /\ promise[r].value.pageCount >= 1
         /\ promise[r].value.pageCount = IF found > 0 THEN found ELSE 1

\* A conversion succeeded on an artifact without any page-object marker (it
\* holds only the page tree's /Type /Pages) and reports one page.
C21_Witness ==
  /\ promise[1].state = "resolved"
  /\ promise[1].value.success
  /\ fs[outputPath[1]].bytes = TypeKey \o <<" ">> \o PageKey \o <<"s">>
  /\ promise[1].value.pageCount = 1

\* The calls of one conversion in the order of the code.  An entry of
\* `events` is written when the call before it has settled and the call it
\* names is made ("launched", "exported" and "read" when the launch, the
\* export and the read-back have completed).
StepsInOrder(withDiagrams) ==
  <<"launch", "launched", "setViewport", "setContent", "fonts">>
    \o (IF withDiagrams THEN <<"mermaid">> ELSE <<>>)
    \o <<"pdf", "exported", "read">>

StepNames == {StepsInOrder(TRUE)[k] : k \in 1..Len(StepsInOrder(TRUE))}

StepsOf(r) == SelectSeq(events[r], LAMBDA e : e \in StepNames)

IsPrefix(p, q) == Len(p) <= Len(q) /\ SubSeq(q, 1, Len(p)) = p

\* C22: within one conversion the steps occur strictly in the order session
\* launch, content load, font-ready wait, diagram-ready wait, export,
\* read-back, each started when the one before it has completed; the
\* diagram-ready wait is made if and only if the markdown has diagram blocks,
\* and the export never starts before the font-ready wait has completed.
C22_StepsInSequence ==
  \A r \in Requests :
    /\ IsPrefix(StepsOf(r), StepsInOrder(md[r].mermaid))
    /\ Has(r, "pdf") => (Has(r, "mermaid") <=> md[r].mermaid)
    /\ Has(r, "pdf") => Has(r, "fonts") /\ ~Has(r, "fontsFailed")

\* Two conversions, one with diagrams and one without, both went through
\* every step up to the read-back.
C22_Witness ==
  /\ StepsOf(1) = StepsInOrder(TRUE)
  /\ StepsOf(2) = StepsInOrder(FALSE)

\* C23: heading context persistence.  A step of the heading scan on a line
\* that is no heading leaves lastHeaderLevel as it is; a step on a heading
\* line sets it to the level of the line it emits, which is the asked level,
\* or the previous level plus one for a heading that jumps ahead, whatever
\* lines lie between the two headings.
C23_HeadingContextPersists ==
  [][ idx < Len(lines) =>
        LET asked == HeaderLevel(lines[idx + 1])
            emitted == HeaderLevel(fixedLines'[Len(fixedLines')])
        IN IF asked = 0 THEN lastHeaderLevel' = lastHeaderLevel
           ELSE /\ lastHeaderLevel' = emitted
                /\ emitted = IF lastHeaderLevel > 0 /\ asked > lastHeaderLevel + 1
                               THEN lastHeaderLevel + 1 ELSE asked ]_vars

\* The scan of "# a", "a", "### a" has ended: the third line was demoted to
\* level 2 across the body line.
C23_Witness ==
  /\ lines = <<Heading(1), <<"a">>, Heading(3)>>
  /\ idx = 3
  /\ lastHeaderLevel = 2
  /\ fixedLines[Len(fixedLines)] = Heading(2)

\* The text of a heading line after its markers.
TextAfterMarkers(line) ==
  LET t == Trim(line) IN SubSeq(t, LeadingHashes(t) + 1, Len(t))

\* C24: the heading fixer repairs jump-ahead violations only.  A heading
\* line met with no heading before it, or of a level of at most the previous
\* level plus one, is emitted as it is; a demoted heading gets a level below
\* the one it asked for, within 2..6, and keeps the text after its markers.
C24_OnlyJumpAheadRepaired ==
  [][ (idx < Len(lines) /\ HeaderLevel(lines[idx + 1]) > 0) =>
        LET line == lines[idx + 1]
            asked == HeaderLevel(line)
            out == fixedLines'[Len(fixedLines')]
        IN IF lastHeaderLevel = 0 \/ asked <= lastHeaderLevel + 1
             THEN out = line
             ELSE /\ HeaderLevel(out) < asked
                  /\ HeaderLevel(out) \in 2..6
                  /\ TextAfterMarkers(out) = TextAfterMarkers(line) ]_vars

\* The scan of "#### a", "###### a", "# a" has ended: the first heading and
\* the drop to level 1 were emitted as they were, the second heading was
\* demoted to level 5.
C24_Witness ==
  /\ lines = <<Heading(4), Heading(6), Heading(1)>>
  /\ idx = 3
  /\ fixedLines = <<Heading(4), <<>>, Heading(5), <<>>, Heading(1)>>

\* A line of only white space (the heading pass's own test, trim() === '').
IsBlank(line) == Trim(line) = <<>>

\* C25: in the text preprocessMarkdown returns, every heading line other
\* than the first line of the document is preceded by exactly one blank line:
\* the line before it is blank and the line before that one, if any, is not.
C25_OneBlankLineBeforeHeading ==
  step = "return" =>
    LET out == Split(processed, "\n")
    IN \A k \in 2..Len(out) :
         HeaderLevel(out[k]) > 0 =>
           /\ IsBlank(out[k - 1])
           /\ k > 2 => ~IsBlank(out[k - 2])

\* C26: duplicate fix descriptions are suppressed.  The fixes list that
\* preprocessMarkdown returns holds no description twice.
C26_NoDuplicateFixes ==
  step = "return" =>
    \A i, j \in 1..Len(fixes) : i # j => fixes[i] # fixes[j]

\* C27: a Fix Record is appended only when a genuine change occurred.  A
\* pass that appends to fixes returns a text different from the one it got,
\* and when preprocessMarkdown returns its input unchanged the fixes list is
\* empty.
C27_FixOnlyOnChange ==
  [][ /\ Len(fixes') > Len(fixes) => processed' # processed
      /\ (step' = "return" /\ processed' = markdown) => fixes' = <<>> ]_vars

FourNewlines == <<"\n", "\n", "\n", "\n">>

\* C28: blank-line collapsing holds on the final text.  The text that
\* preprocessMarkdown returns has no run of four or more newline characters.
C28_NoLongBlankRun ==
  step = "return" => ~Includes(processed, FourNewlines)

\* preprocessMarkdown returned from a text with five newlines before a fence:
\* the run was collapsed to three and the code-fence pass, which ran after
\* the collapse, added a newline after the fence.
C28_Witness ==
  /\ step = "return"
  /\ markdown = BlankRunBeforeFence
  /\ processed = <<"a", "\n", "\n", "\n">> \o Fence \o <<"\n", "\n", "b">>
  /\ Len(fixes) = 2

\* C29: the inline-code pass strips only white space immediately inside a
\* code span, the backticks paired from the left.  Cutting its input and its
\* output at the backticks gives as many pieces; a piece between an opening
\* and a closing backtick comes out as it went in, or trimmed when its trimmed
\* content has no space; every piece outside the spans comes out as it went
\* in.
C29_InlineCodeRepairInsideSpansOnly ==
  [][ step = "fix4" =>
        LET in == Split(processed, Backtick)
            out == Split(processed', Backtick)
        IN /\ Len(out) = Len(in)
           /\ \A k \in 1..Len(in) :
                IF k % 2 = 0 /\ k < Len(in)
                  THEN IF Includes(Trim(in[k]), <<" ">>)
                         THEN out[k] = in[k]
                         ELSE out[k] \in {in[k], Trim(in[k])}
                  ELSE out[k] = in[k] ]_vars

\* C30: the caller never observes the outcome of a conversion whose
\* rendering session is still open.  Once a conversion has launched a
\* session, its promise is settled, and the handler has answered, only when
\* the awaited close of that session has settled and the session is closed.
C30_SettlesAfterClose ==
  \A r \in Requests :
    (Has(r, "launched")
       /\ (promise[r].state # "pending" \/ response[r] # NoResponse)) =>
      /\ Has(r, "closed") \/ Has(r, "closeFailed")
      /\ sessions[browser[r]].state = "closed"

\* A conversion that launched a session has succeeded and the handler has
\* answered: the close had settled before.
C30_Witness ==
  /\ Has(1, "launched")
  /\ promise[1].state = "resolved"
  /\ promise[1].value.success
  /\ response[1] # NoResponse
  /\ events[1][Len(events[1])] = "closed"

====
